---- MODULE Spec2Model ----
(***************************************************************************)
(* Differential rendering engine of the TUI class (src/src/tui.ts).        *)
(*                                                                         *)
(* A display line is a sequence of one-cell characters (styling codes are  *)
(* not modelled, so the visible width of a line is its length).  A frame   *)
(* is a sequence of lines.  The buffer handed to terminal.write is a       *)
(* sequence of control tokens, one per control sequence or text run of the *)
(* source; the terminal is a grid of rows with a cursor that obeys them.   *)
(*                                                                         *)
(* Spec is the rendering engine alone.  FocusSpec adds the focus, the      *)
(* modal and key input on a terminal of fixed size; QuerySpec adds the     *)
(* cell-size query and the input buffer that filters its response.         *)
(* CompositeSpec is the modal compositor on terminals of several sizes,    *)
(* ReentrantSpec the render callback with requests made during a pass,     *)
(* ServeSpec the callers of requestRender with the event loop, and         *)
(* ContainerSpec the children of the root container and their rendering.   *)
(* DiffSpec runs the diff loop on any two frames, StackSpec opens modals   *)
(* over modals and StopSpec adds stop.  ModalSpec, ModalRenderSpec and     *)
(* BoxSpec are the Modal and FullScreenBox components of                   *)
(* src/src/components/modal.ts.                                            *)
(***************************************************************************)
EXTENDS Integers, Sequences, FiniteSets, TLC

VARIABLES
    previousLines,    \* TUI.previousLines: the baseline frame
    previousWidth,    \* TUI.previousWidth
    cursorRow,        \* TUI.cursorRow (0-based, relative to the first line)
    renderRequested,  \* TUI.renderRequested
    tickQueue,        \* number of process.nextTick callbacks not yet run
    columns,          \* terminal.columns
    rows,             \* terminal.rows
    term,             \* the terminal: [screen, row, col]
    pass,             \* what the step just taken did, if it was a render pass
    last,             \* the latest pass since the last refresh: length, width, end
    requests,         \* requestRender calls since the last callback ran
    clean,            \* no line wider than the terminal written since the last clear
    focusedComponent, \* TUI.focusedComponent
    modalState,       \* TUI.modalState
    children,         \* Container.children of the root
    inputBuffer,      \* TUI.inputBuffer
    cellSizeQueryPending, \* TUI.cellSizeQueryPending
    started,          \* terminal.start has registered the callbacks
    ev,               \* what the step just taken did, if it was not a render pass
    received,         \* the input that arrived while the cell-size query was pending
    routed,           \* what handleInput passed on of it, to the focused component
    composite,        \* what the step just taken did, if it was compositeModal
    modalChildren,    \* Modal.children of the Modal component
    focusedChildIndex, \* Modal.focusedChildIndex (0-based)
    chosenChild,      \* the child setFocusedChild selected last, while it stays
    modalOptions,     \* Modal.options, the defaults merged in
    box,              \* the FullScreenBox: its paddings and its cache
    stopped           \* TUI.stop has released the terminal

vars == << previousLines, previousWidth, cursorRow, renderRequested, tickQueue,
           columns, rows, term, pass, last, requests, clean,
           focusedComponent, modalState, children, inputBuffer,
           cellSizeQueryPending, started, ev, received, routed, composite,
           modalChildren, focusedChildIndex, chosenChild, modalOptions, box,
           stopped >>

(* the Modal component, the FullScreenBox and the released terminal *)
widgetVars == << modalChildren, focusedChildIndex, chosenChild, modalOptions,
                box, stopped >>

(* the fields the rendering engine does not touch *)
uiVars == << focusedComponent, modalState, children, inputBuffer,
             cellSizeQueryPending, started, received, routed, composite,
             widgetVars >>

----------------------------------------------------------------------------
(* Bounds of the model *)

MaxLines == 2
MaxWidth == 3
MaxHeight == 2
MaxRequests == 2

Widths == 2..MaxWidth
Heights == 1..MaxHeight

(* The lines a component may return: an empty line, a one-cell line and a  *)
(* three-cell line (wider than the narrowest terminal).                    *)
LineSet == { <<>>, <<"a">>, <<"b", "b", "b">> }

RECURSIVE FramesOfLen(_)
FramesOfLen(n) ==
    IF n = 0 THEN { <<>> }
    ELSE { Append(f, l) : f \in FramesOfLen(n - 1), l \in LineSet }

Frames == UNION { FramesOfLen(n) : n \in 0..MaxLines }

Max(a, b) == IF a >= b THEN a ELSE b
Min(a, b) == IF a <= b THEN a ELSE b

----------------------------------------------------------------------------
(* Control tokens written to the terminal *)

Tok(op, n, text) == [op |-> op, n |-> n, text |-> text]

BSU == Tok("BSU", 0, <<>>)        \* CSI ?2026h  begin synchronized update
ESU == Tok("ESU", 0, <<>>)        \* CSI ?2026l  end synchronized update
ED3 == Tok("ED3", 0, <<>>)        \* CSI 3J      clear scrollback
ED2 == Tok("ED2", 0, <<>>)        \* CSI 2J      clear screen
CUP == Tok("CUP", 0, <<>>)        \* CSI H       home
EL2 == Tok("EL2", 0, <<>>)        \* CSI 2K      clear current line
CR == Tok("CR", 0, <<>>)          \* \r
LF == Tok("LF", 0, <<>>)          \* \n
CUD(n) == Tok("CUD", n, <<>>)     \* CSI n B     cursor down
CUU(n) == Tok("CUU", n, <<>>)     \* CSI n A     cursor up
TEXT(line) == Tok("TEXT", 0, line)

----------------------------------------------------------------------------
(* The terminal: the rows from the top of the scrollback to the bottom of  *)
(* the screen, the cursor's row (1-based index into screen) and column     *)
(* (0-based).  The viewport is the last `rws` rows of the screen.          *)

Blank == <<>>

BlankRows(n) == [i \in 1..n |-> Blank]

ViewTop(t, rws) == Max(1, Len(t.screen) - rws + 1)

(* Characters of `text` put on row `old` from column `col` on: what was    *)
(* there before stays on both sides of the text.                           *)
Overlay(old, col, text) ==
    LET n == Max(Len(old), col + Len(text))
    IN [i \in 1..n |->
          IF i > col /\ i <= col + Len(text) THEN text[i - col]
          ELSE IF i <= Len(old) THEN old[i]
          ELSE " "]

LineFeed(t) ==
    IF t.row = Len(t.screen)
    THEN [t EXCEPT !.screen = Append(@, Blank), !.row = @ + 1]
    ELSE [t EXCEPT !.row = @ + 1]

(* A text run: it wraps to the next row where it passes the last column.   *)
RECURSIVE PutText(_, _, _)
PutText(t, text, cols) ==
    IF text = <<>> THEN t
    ELSE IF t.col >= cols
    THEN PutText([LineFeed(t) EXCEPT !.col = 0], text, cols)
    ELSE LET k == Min(cols - t.col, Len(text))
             t1 == [t EXCEPT !.screen[t.row] = Overlay(@, t.col, SubSeq(text, 1, k)),
                             !.col = @ + k]
         IN PutText(t1, SubSeq(text, k + 1, Len(text)), cols)

TermStep(t, tok, cols, rws) ==
    CASE tok.op = "TEXT" -> PutText(t, tok.text, cols)
      [] tok.op = "CR" -> [t EXCEPT !.col = 0]
      [] tok.op = "LF" -> LineFeed(t)
      [] tok.op = "CUU" -> [t EXCEPT !.row = Max(ViewTop(t, rws), @ - tok.n)]
      [] tok.op = "CUD" -> [t EXCEPT !.row = Min(Len(t.screen), @ + tok.n)]
      [] tok.op = "EL2" -> [t EXCEPT !.screen[t.row] = Blank]
      [] tok.op = "ED3" ->
            LET top == ViewTop(t, rws)
            IN [t EXCEPT !.screen = SubSeq(@, top, Len(@)), !.row = @ - top + 1]
      [] tok.op = "ED2" ->
            LET top == ViewTop(t, rws)
            IN [t EXCEPT !.screen =
                   [i \in 1..Len(@) |-> IF i >= top THEN Blank ELSE @[i]]]
      [] tok.op = "CUP" -> [t EXCEPT !.row = ViewTop(t, rws), !.col = 0]
      [] OTHER -> t              \* BSU, ESU: no effect on the grid

(* terminal.write(buffer) *)
RECURSIVE TermWrite(_, _, _, _)
TermWrite(t, buffer, cols, rws) ==
    IF buffer = <<>> THEN t
    ELSE TermWrite(TermStep(t, Head(buffer), cols, rws), Tail(buffer), cols, rws)

(* The window is resized to `rws` rows: blank rows below the cursor go     *)
(* first, then rows leave into (or come back from) the scrollback.         *)
TermResize(t, rws) ==
    LET n == Max(rws, t.row)
    IN [t EXCEPT !.screen =
           [i \in 1..n |-> IF i <= Len(t.screen) THEN t.screen[i] ELSE Blank]]

----------------------------------------------------------------------------
(* TUI.doRender *)

visibleWidth(line) == Len(line)

(* The image escape sequences are abstracted to the one-character marker   *)
(* "G"; no line of LineSet carries it.                                     *)
containsImage(line) == \E i \in 1..Len(line) : line[i] = "G"

(* The definitions named ...Never..., ...OffByOne, ...Inverted and the like *)
(* are faulty variants of the definition that follows them; the           *)
(* properties are required to tell each from the original.                *)
widthNeverChanged(prevWidth, width) == FALSE

widthChanged(prevWidth, width) == prevWidth # 0 /\ prevWidth # width

lineCountNeverChanged(prev, newLines) == FALSE

lineCountChanged(prev, newLines) == Len(prev) # 0 /\ Len(prev) # Len(newLines)

(* lines[i] of the source (0-based), "" past the end *)
LineAt(lines, i) == IF i < Len(lines) THEN lines[i + 1] ELSE <<>>

RECURSIVE ScanChanged(_, _, _, _)
ScanChanged(prev, newLines, i, maxLines) ==
    IF i >= maxLines THEN -1
    ELSE IF LineAt(prev, i) # LineAt(newLines, i) THEN i
    ELSE ScanChanged(prev, newLines, i + 1, maxLines)

firstChangedWithinNew(prev, newLines) ==
    ScanChanged(prev, newLines, 0, Len(newLines))

firstChangedOf(prev, newLines) ==
    ScanChanged(prev, newLines, 0, Max(Len(newLines), Len(prev)))

viewportTopOffByOne(cur, height) == cur - height

viewportTopIgnoresCursor(cur, height) == 0

viewportTop(cur, height) == cur - height + 1

lastLineCount(newLines) == Len(newLines)

(* newLines.length - 1: the row the cursor is left on *)
lastLineIndex(newLines) == Len(newLines) - 1

(* newLines[from..], separated by "\r\n", each preceded by `pre` *)
RECURSIVE EmitLines(_, _, _, _)
EmitLines(newLines, from, i, pre) ==
    IF i >= Len(newLines) THEN <<>>
    ELSE (IF i > from THEN <<CR, LF>> ELSE <<>>) \o pre \o <<TEXT(newLines[i + 1])>>
         \o EmitLines(newLines, from, i + 1, pre)

firstRenderWithClear(newLines) ==
    <<BSU, ED3, ED2, CUP>> \o EmitLines(newLines, 0, 0, <<>>) \o <<ESU>>

firstRenderBuffer(newLines) ==
    <<BSU>> \o EmitLines(newLines, 0, 0, <<>>) \o <<ESU>>

fullRenderBuffer(newLines) ==
    <<BSU, ED3, ED2, CUP>> \o EmitLines(newLines, 0, 0, <<>>) \o <<ESU>>

cursorMoveInverted(lineDiff) ==
    IF lineDiff > 0 THEN <<CUU(lineDiff)>>
    ELSE IF lineDiff < 0 THEN <<CUD(-lineDiff)>>
    ELSE <<>>

cursorMove(lineDiff) ==
    IF lineDiff > 0 THEN <<CUD(lineDiff)>>
    ELSE IF lineDiff < 0 THEN <<CUU(-lineDiff)>>
    ELSE <<>>

RECURSIVE ClearExtra(_)
ClearExtra(n) == IF n <= 0 THEN <<>> ELSE <<CR, LF, EL2>> \o ClearExtra(n - 1)

extraLinesBuffer(prev, newLines) ==
    IF Len(prev) > Len(newLines)
    THEN ClearExtra(Len(prev) - Len(newLines)) \o <<CUU(Len(prev) - Len(newLines))>>
    ELSE <<>>

incrementalNoEndMarker(prev, newLines, cur, first) ==
    <<BSU>> \o cursorMove(first - cur) \o <<CR>>
    \o EmitLines(newLines, first, first, <<EL2>>)

incrementalBuffer(prev, newLines, cur, first) ==
    <<BSU>> \o cursorMove(first - cur) \o <<CR>>
    \o EmitLines(newLines, first, first, <<EL2>>)
    \o extraLinesBuffer(prev, newLines)
    \o <<ESU>>

(* the width check of the incremental loop throws *)
lineTooWide(newLines, first, width) ==
    \E i \in first..(Len(newLines) - 1) :
        ~containsImage(newLines[i + 1]) /\ visibleWidth(newLines[i + 1]) > width

(* The outcome of one pass: the branch taken, the buffer written (if any)  *)
(* and the baseline afterwards.                                            *)
OutcomeWritesEachToken(branch, buffer, writes, lines, width, cur, first) ==
    [branch |-> branch, buffer |-> buffer, writes |-> Len(buffer),
     previousLines |-> lines, previousWidth |-> width, cursorRow |-> cur,
     firstChanged |-> first]

Outcome(branch, buffer, writes, lines, width, cur, first) ==
    [branch |-> branch, buffer |-> buffer, writes |-> writes,
     previousLines |-> lines, previousWidth |-> width, cursorRow |-> cur,
     firstChanged |-> first]

doRender(prev, prevWidth, cur, newLines, width, height) ==
    LET first == firstChangedOf(prev, newLines)
        done == lastLineIndex(newLines)
    IN IF Len(prev) = 0
       THEN Outcome("first", firstRenderBuffer(newLines), 1, newLines, width, done, -1)
       ELSE IF widthChanged(prevWidth, width) \/ lineCountChanged(prev, newLines)
       THEN Outcome("full", fullRenderBuffer(newLines), 1, newLines, width, done, -1)
       ELSE IF first = -1
       THEN Outcome("same", <<>>, 0, prev, prevWidth, cur, first)
       ELSE IF first < viewportTop(cur, height)
       THEN Outcome("viewport", fullRenderBuffer(newLines), 1, newLines, width, done, first)
       ELSE IF lineTooWide(newLines, first, width)
       THEN Outcome("fatal", <<>>, 0, prev, prevWidth, cur, first)
       ELSE Outcome("incremental", incrementalBuffer(prev, newLines, cur, first), 1,
                    newLines, width, done, first)

----------------------------------------------------------------------------
(* TUI.requestRender: the flag and the number of deferred callbacks *)

requestRenderUnguarded(requested, queued) ==
    [renderRequested |-> TRUE, tickQueue |-> queued + 1]

requestRenderNeverQueued(requested, queued) ==
    [renderRequested |-> TRUE, tickQueue |-> queued]

requestRender(requested, queued) ==
    IF requested THEN [renderRequested |-> requested, tickQueue |-> queued]
    ELSE [renderRequested |-> TRUE, tickQueue |-> queued + 1]

----------------------------------------------------------------------------
(* Components, focus and the modal *)

NULL == "null"

(* The components of the application: an editor that takes input, a text   *)
(* block without a handleInput method, and two modal dialogs.              *)
Components == { "editor", "text", "modalA", "modalB" }

ModalComponents == { "modalA", "modalB" }

(* component.handleInput is defined *)
HandlesInput(c) == c \in { "editor", "modalA", "modalB" }

(* The options argument of showModal: dimBackground given or left out,     *)
(* and no width.                                                           *)
OptionInputs ==
    { [given |-> FALSE, dimBackground |-> FALSE, widthGiven |-> FALSE, width |-> 0],
      [given |-> TRUE, dimBackground |-> FALSE, widthGiven |-> FALSE, width |-> 0],
      [given |-> TRUE, dimBackground |-> TRUE, widthGiven |-> FALSE, width |-> 0] }

(* { dimBackground: true, ...options } *)
mergeOptions(options) ==
    [dimBackground |-> IF options.given THEN options.dimBackground ELSE TRUE,
     widthGiven |-> options.widthGiven,
     width |-> options.width]

(* modalState = null *)
NoModal ==
    [visible |-> FALSE, component |-> NULL,
     options |-> [dimBackground |-> TRUE, widthGiven |-> FALSE, width |-> 0],
     previousFocus |-> NULL]

isModalVisible == modalState.visible

setFocusIgnored(component) == NULL

setFocus(component) == component

showModalKeepsFirstFocus(component, options, focus) ==
    [modalState |-> [visible |-> TRUE, component |-> component,
                     options |-> mergeOptions(options),
                     previousFocus |-> IF focus \in ModalComponents
                                       THEN NULL ELSE focus],
     focusedComponent |-> setFocus(component)]

showModal(component, options, focus) ==
    [modalState |-> [visible |-> TRUE, component |-> component,
                     options |-> mergeOptions(options),
                     previousFocus |-> focus],
     focusedComponent |-> setFocus(component)]

hideModalKeepsModal(modal, focus) ==
    [modalState |-> modal, focusedComponent |-> focus]

(* hideModal with a modal open: the focus moves only when the recorded     *)
(* previousFocus is not null.                                              *)
hideModal(modal, focus) ==
    [modalState |-> NoModal,
     focusedComponent |-> IF modal.previousFocus # NULL
                          THEN setFocus(modal.previousFocus)
                          ELSE focus]

deliveryTargetAny(focus) == focus

(* this.focusedComponent?.handleInput: the component that receives the     *)
(* data, or NULL when nothing is delivered                                 *)
deliveryTarget(focus) ==
    IF focus # NULL /\ HandlesInput(focus) THEN focus ELSE NULL

fullRefreshKeepsScrollback == << ED2, CUP >>

(* "\x1b[3J\x1b[2J\x1b[H" *)
fullRefreshSequence == << ED3, ED2, CUP >>

----------------------------------------------------------------------------
(* TUI.parseCellSizeResponse.  Input is a sequence of characters; "ESC" is *)
(* the escape character and the decimal digits are "0" and "1".            *)

ESC == "ESC"

Digits == { "0", "1" }

(* the character at 1-based position i, "" outside the buffer *)
CharAt(buf, i) == IF i \in 1..Len(buf) THEN buf[i] ELSE ""

(* \d+ : the length of the run of digits that starts at position i *)
RECURSIVE DigitRun(_, _)
DigitRun(buf, i) ==
    IF CharAt(buf, i) \in Digits THEN 1 + DigitRun(buf, i + 1) ELSE 0

(* ESC [ 6 ; at position i *)
IntroducerAt(buf, i) ==
    /\ CharAt(buf, i) = ESC
    /\ CharAt(buf, i + 1) = "["
    /\ CharAt(buf, i + 2) = "6"
    /\ CharAt(buf, i + 3) = ";"

(* responsePattern matched at position i: the position of its final "t",  *)
(* or 0 when it does not match there                                       *)
ResponseEnd(buf, i) ==
    LET h == DigitRun(buf, i + 4)
        w == DigitRun(buf, i + 5 + h)
    IN IF /\ IntroducerAt(buf, i)
          /\ h > 0
          /\ CharAt(buf, i + 4 + h) = ";"
          /\ w > 0
          /\ CharAt(buf, i + 5 + h + w) = "t"
       THEN i + 5 + h + w
       ELSE 0

(* inputBuffer.match(responsePattern): the leftmost match, or 0 *)
MatchStart(buf) ==
    LET M == { i \in 1..Len(buf) : ResponseEnd(buf, i) > 0 }
    IN IF M = {} THEN 0 ELSE CHOOSE i \in M : \A j \in M : i <= j

(* parseInt(...) > 0 of the n digits that start at position i *)
PositiveNumber(buf, i, n) == \E k \in i..(i + n - 1) : buf[k] # "0"

(* heightPx > 0 && widthPx > 0 of the response matched at position i *)
PositiveDimensions(buf, i) ==
    LET h == DigitRun(buf, i + 4)
        w == DigitRun(buf, i + 5 + h)
    IN PositiveNumber(buf, i + 4, h) /\ PositiveNumber(buf, i + 5 + h, w)

(* inputBuffer.replace(responsePattern, "") *)
RemoveResponse(buf) ==
    LET i == MatchStart(buf)
    IN IF i = 0 THEN buf
       ELSE SubSeq(buf, 1, i - 1) \o SubSeq(buf, ResponseEnd(buf, i) + 1, Len(buf))

(* partialPattern: ESC [ 6 ; followed by digits and semicolons up to the   *)
(* end of the buffer                                                       *)
PartialResponse(buf) ==
    \E i \in 1..Len(buf) :
        /\ IntroducerAt(buf, i)
        /\ \A k \in (i + 4)..Len(buf) : buf[k] \in Digits \cup { ";" }

(* inputBuffer.lastIndexOf("\x1b"): 0-based, -1 when there is none *)
lastIndexOfEsc(buf) ==
    LET E == { i \in 1..Len(buf) : buf[i] = ESC }
    IN IF E = {} THEN -1 ELSE (CHOOSE i \in E : \A j \in E : j <= i) - 1

(* an escape character this close to the end of the buffer is held back *)
EscWindow == 10

(* parseCellSizeResponse after the match: rest is the buffer without the   *)
(* response, waiting the pending flag; the partial response, the escape    *)
(* held back, or the buffer given up as user input.                        *)
releaseInput(rest, waiting, matched, positive) ==
    LET escIndex == lastIndexOfEsc(rest)
    IN IF PartialResponse(rest)
       THEN [result |-> <<>>, inputBuffer |-> rest,
             cellSizeQueryPending |-> waiting,
             matched |-> matched, positive |-> positive]
       ELSE IF escIndex # -1 /\ escIndex > Len(rest) - EscWindow
       THEN [result |-> SubSeq(rest, 1, escIndex),
             inputBuffer |-> SubSeq(rest, escIndex + 1, Len(rest)),
             cellSizeQueryPending |-> waiting,
             matched |-> matched, positive |-> positive]
       ELSE [result |-> rest, inputBuffer |-> <<>>,
             cellSizeQueryPending |-> FALSE,
             matched |-> matched, positive |-> positive]

(* The call of parseCellSizeResponse on the buffer buf (the new data       *)
(* already appended): the string returned, the buffer and the pending flag *)
(* afterwards, and whether a response matched, with positive dimensions.   *)
parseCellSizeResponse(buf, pending) ==
    CHOOSE r \in { IF at = 0
                   THEN releaseInput(buf, pending, FALSE, FALSE)
                   ELSE releaseInput(RemoveResponse(buf), FALSE, TRUE,
                                     PositiveDimensions(buf, at)) :
                   at \in { MatchStart(buf) } } : TRUE

(* Container.invalidate: the children whose invalidate is called, in order *)
invalidate(kids) == kids

----------------------------------------------------------------------------
(* TUI.compositeModal.  The helpers of utils.js are taken from their       *)
(* description: dimLine restyles every cell of a line and keeps its width, *)
(* padToWidth makes a line exactly as wide as asked, overlayLineAt         *)
(* replaces the cells of a line from a column on.                          *)

(* " ".repeat(n) *)
Spaces(n) == [i \in 1..Max(0, n) |-> " "]

dimCell(c) ==
    CASE c = "a" -> "a~"
      [] c = "b" -> "b~"
      [] c = " " -> " ~"
      [] OTHER -> c

dimLine(line) == [i \in 1..Len(line) |-> dimCell(line[i])]

padToWidth(line, width) ==
    [i \in 1..Max(0, width) |-> IF i <= Len(line) THEN line[i] ELSE " "]

overlayLineAt(base, overlay, startCol, totalWidth) ==
    [c \in 1..Min(totalWidth, Max(Len(base), startCol + Len(overlay))) |->
        IF c - 1 >= startCol /\ c - 1 < startCol + Len(overlay)
        THEN overlay[c - startCol]
        ELSE IF c <= Len(base) THEN base[c] ELSE " "]

(* the widest modal the default allows, and the margin it leaves *)
DefaultModalWidth == 60

ModalMargin == 10

(* options.width ?? Math.min(60, terminalWidth - 10) *)
modalWidthOf(options, terminalWidth) ==
    IF options.widthGiven THEN options.width
    ELSE Min(DefaultModalWidth, terminalWidth - ModalMargin)

centerUnclamped(available, size) == (available - size) \div 2

(* Math.max(0, Math.floor((available - size) / 2)) *)
center(available, size) == Max(0, (available - size) \div 2)

rowAlwaysDrawn(row, terminalHeight) == TRUE

(* row >= 0 && row < terminalHeight *)
rowDrawn(row, terminalHeight) == row >= 0 /\ row < terminalHeight

(* paddedBg: the background with blank lines up to the terminal height *)
padBackground(background, terminalWidth, terminalHeight) ==
    background \o [i \in 1..Max(0, terminalHeight - Len(background)) |->
                      Spaces(terminalWidth)]

(* dimmedBg *)
dimBackground(paddedBg, options) ==
    IF options.dimBackground
    THEN [i \in 1..Len(paddedBg) |-> dimLine(paddedBg[i])]
    ELSE paddedBg

(* The call compositeModal(background, terminalWidth, terminalHeight) with *)
(* a modal whose component renders modalLines.                             *)
compositeModal(modal, background, modalLines, terminalWidth, terminalHeight) ==
    IF ~modal.visible THEN background
    ELSE LET dimmedBg == dimBackground(
                 padBackground(background, terminalWidth, terminalHeight),
                 modal.options)
             modalWidth == modalWidthOf(modal.options, terminalWidth)
             paddedModalLines ==
                 [i \in 1..Len(modalLines) |-> padToWidth(modalLines[i], modalWidth)]
             modalHeight == Len(paddedModalLines)
             startRow == center(terminalHeight, modalHeight)
             startCol == center(terminalWidth, modalWidth)
         IN [r \in 1..Len(dimmedBg) |->
                LET i == (r - 1) - startRow
                IN IF i >= 0 /\ i < modalHeight /\ rowDrawn(r - 1, terminalHeight)
                   THEN overlayLineAt(dimmedBg[r], paddedModalLines[i + 1],
                                      startCol, terminalWidth)
                   ELSE dimmedBg[r]]

----------------------------------------------------------------------------
(* State machine *)

NoPass ==
    [branch |-> "none", frame |-> <<>>, width |-> 0, height |-> 0,
     buffer |-> <<>>, writes |-> 0, prevLen |-> 0, prevWidth |-> 0,
     prevCursor |-> 0, firstChanged |-> -1, firstDiff |-> -1, unchanged |-> FALSE,
     served |-> 0, nested |-> 0,
     last |-> [valid |-> FALSE, len |-> 0, width |-> 0, done |-> FALSE]]

NoLast == [valid |-> FALSE, len |-> 0, width |-> 0, done |-> FALSE]

(* The smallest 0-based index at which two frames differ (a line that is  *)
(* missing counts as a line that differs from any line present), or -1.    *)
FirstDiff(old, new) ==
    LET D == { i \in 0..(Max(Len(old), Len(new)) - 1) :
                 \/ i >= Len(old)
                 \/ i >= Len(new)
                 \/ old[i + 1] # new[i + 1] }
    IN IF D = {} THEN -1 ELSE CHOOSE i \in D : \A j \in D : i <= j

Fits(frame, width) == \A i \in 1..Len(frame) : visibleWidth(frame[i]) <= width

(* no call of compositeModal yet *)
NoComposite ==
    [called |-> FALSE, background |-> <<>>, modalLines |-> <<>>,
     terminalWidth |-> 0, terminalHeight |-> 0, dim |-> FALSE,
     modalWidth |-> 0, modalHeight |-> 0, startRow |-> 0, startCol |-> 0,
     result |-> <<>>]

(* a FullScreenBox just constructed with no padding: no child, no cache *)
NoBox ==
    [paddingX |-> 0, paddingY |-> 0,
     cached |-> FALSE, cachedWidth |-> 0, cachedHeight |-> 0,
     cachedChildLines |-> <<>>, cachedLines |-> <<>>]

(* The observation of a step that is not a render pass: the call made, its *)
(* argument, the fields as they were before it, and what the call did.     *)
NoEv ==
    [kind |-> "none", arg |-> NULL, chunk |-> <<>>,
     focus |-> NULL, modal |-> NoModal, children |-> <<>>,
     lines |-> <<>>, width |-> 0, cursor |-> 0,
     renderRequested |-> FALSE, tickQueue |-> 0,
     pending |-> FALSE, buffer |-> <<>>,
     to |-> NULL, data |-> <<>>, calls |-> 0,
     matched |-> FALSE, positive |-> FALSE,
     invalidated |-> <<>>, wrote |-> <<>>,
     renderWidth |-> 0, renderCalls |-> <<>>, rendered |-> <<>>,
     newLines |-> <<>>, firstChanged |-> -1,
     kids |-> <<>>, index |-> 0, key |-> <<>>, onClose |-> FALSE,
     closeCalls |-> 0, forwarded |-> <<>>, threw |-> FALSE,
     options |-> <<>>, variant |-> "none",
     terminalHeight |-> 0, fromCache |-> FALSE, box |-> NoBox]

Before(kind) ==
    [NoEv EXCEPT !.kind = kind,
                 !.focus = focusedComponent, !.modal = modalState,
                 !.children = children,
                 !.lines = previousLines, !.width = previousWidth,
                 !.cursor = cursorRow,
                 !.renderRequested = renderRequested, !.tickQueue = tickQueue,
                 !.pending = cellSizeQueryPending, !.buffer = inputBuffer,
                 !.kids = modalChildren, !.index = focusedChildIndex]

(* the options of a Modal constructed without any: the defaults of the    *)
(* constructor, no title, and the close hint render falls back to          *)
DefaultModalOptions ==
    [showHeader |-> TRUE, showBorder |-> FALSE, paddingX |-> 2, paddingY |-> 1,
     showSeparator |-> TRUE, title |-> <<>>, closeHint |-> << "e", "s", "c" >>]

(* a TUI just constructed, on a terminal of one of the given sizes *)
InitOn(widths, heights) ==
    /\ previousLines = <<>>
    /\ previousWidth = 0
    /\ cursorRow = 0
    /\ renderRequested = FALSE
    /\ tickQueue = 0
    /\ columns \in widths
    /\ rows \in heights
    /\ term = [screen |-> BlankRows(rows), row |-> 1, col |-> 0]
    /\ pass = NoPass
    /\ last = NoLast
    /\ requests = 0
    /\ clean = TRUE
    /\ focusedComponent = NULL
    /\ modalState = NoModal
    /\ children = <<>>
    /\ inputBuffer = <<>>
    /\ cellSizeQueryPending = FALSE
    /\ started = FALSE
    /\ ev = NoEv
    /\ received = <<>>
    /\ routed = <<>>
    /\ composite = NoComposite
    /\ modalChildren = <<>>
    /\ focusedChildIndex = 0
    /\ chosenChild = NULL
    /\ modalOptions = DefaultModalOptions
    /\ box = NoBox
    /\ stopped = FALSE

Init == InitOn(Widths, Heights)

(* An application call of requestRender() *)
RequestRender ==
    /\ requests < MaxRequests
    /\ LET r == requestRender(renderRequested, tickQueue)
       IN /\ renderRequested' = r.renderRequested
          /\ tickQueue' = r.tickQueue
    /\ requests' = requests + 1
    /\ pass' = NoPass
    /\ ev' = NoEv
    /\ UNCHANGED << previousLines, previousWidth, cursorRow, columns, rows, term,
                    last, clean >>
    /\ UNCHANGED uiVars

(* The window changes size; the terminal calls the resize callback, which  *)
(* is requestRender.                                                       *)
Resize ==
    /\ requests < MaxRequests
    /\ \E w \in Widths, h \in Heights :
          /\ << w, h >> # << columns, rows >>
          /\ columns' = w
          /\ rows' = h
          /\ term' = TermResize(term, h)
    /\ LET r == requestRender(renderRequested, tickQueue)
       IN /\ renderRequested' = r.renderRequested
          /\ tickQueue' = r.tickQueue
    /\ requests' = requests + 1
    /\ pass' = NoPass
    /\ ev' = NoEv
    /\ UNCHANGED << previousLines, previousWidth, cursorRow, last, clean >>
    /\ UNCHANGED uiVars

(* TUI.fullRefresh *)
FullRefresh ==
    /\ requests < MaxRequests
    /\ previousLines' = <<>>
    /\ previousWidth' = 0
    /\ cursorRow' = 0
    /\ term' = TermWrite(term, fullRefreshSequence, columns, rows)
    /\ LET r == requestRender(renderRequested, tickQueue)
       IN /\ renderRequested' = r.renderRequested
          /\ tickQueue' = r.tickQueue
    /\ requests' = requests + 1
    /\ pass' = NoPass
    /\ last' = NoLast
    /\ clean' = TRUE
    /\ ev' = [Before("fullRefresh") EXCEPT !.calls = 1,
                                           !.wrote = fullRefreshSequence]
    /\ UNCHANGED << columns, rows >>
    /\ UNCHANGED uiVars

(* The deferred callback of requestRender runs: the flag is cleared and    *)
(* doRender renders the frame the component tree returns.                  *)
(* n successive calls of requestRender *)
RECURSIVE requestRenderTimes(_, _, _)
requestRenderTimes(n, requested, queued) ==
    IF n = 0 THEN [renderRequested |-> requested, tickQueue |-> queued]
    ELSE LET r == requestRender(requested, queued)
         IN requestRenderTimes(n - 1, r.renderRequested, r.tickQueue)

callbackClearsAfterPass(calls, queued) ==
    [renderRequested |-> FALSE,
     tickQueue |-> requestRenderTimes(calls, TRUE, queued - 1).tickQueue]

(* The callback requestRender hands to process.nextTick: it leaves the     *)
(* queue, clears renderRequested and then runs doRender, during which the  *)
(* components' render may call requestRender `calls` times.                *)
nextTickCallback(calls, queued) ==
    requestRenderTimes(calls, FALSE, queued - 1)

(* One turn of the event loop running the callback: a whole render pass,   *)
(* the callback running to completion before any other callback starts.    *)
TickWith(frames, nestedCalls) ==
    /\ tickQueue > 0
    /\ \E calls \in nestedCalls :
          \E r \in { nextTickCallback(calls, tickQueue) } :
             /\ renderRequested' = r.renderRequested
             /\ tickQueue' = r.tickQueue
             /\ requests' = calls
    /\ \E frame \in frames :
          \E o \in { doRender(previousLines, previousWidth, cursorRow, frame,
                              columns, rows) } :
             /\ previousLines' = o.previousLines
             /\ previousWidth' = o.previousWidth
             /\ cursorRow' = o.cursorRow
             /\ term' = IF o.writes > 0
                        THEN TermWrite(term, o.buffer, columns, rows)
                        ELSE term
             /\ pass' = [branch |-> o.branch, frame |-> frame, width |-> columns,
                         height |-> rows, buffer |-> o.buffer, writes |-> o.writes,
                         prevLen |-> Len(previousLines), prevWidth |-> previousWidth,
                         prevCursor |-> cursorRow, firstChanged |-> o.firstChanged,
                         firstDiff |-> FirstDiff(previousLines, frame),
                         unchanged |-> (frame = previousLines /\ columns = previousWidth),
                         served |-> requests, nested |-> requests',
                         last |-> last]
             /\ last' = [valid |-> TRUE, len |-> Len(frame), width |-> columns,
                         done |-> o.branch # "fatal"]
             /\ clean' = CASE o.writes = 0 -> clean
                            [] o.branch \in {"full", "viewport"} -> Fits(frame, columns)
                            [] OTHER -> clean /\ Fits(frame, columns)
    /\ ev' = NoEv
    /\ UNCHANGED << columns, rows >>
    /\ UNCHANGED uiVars

TickFrom(frames) == TickWith(frames, { 0 })

Tick == TickFrom(Frames)

Next == RequestRender \/ Resize \/ FullRefresh \/ Tick

Spec == Init /\ [][Next]_vars

----------------------------------------------------------------------------
(* Focus, modal and input: the calls of the application and the input      *)
(* callback, on a terminal of fixed size.                                  *)

MaxChildren == 1

(* the frames rendered while the focus and the modal are exercised *)
SmallFrames == { <<>>, << <<"a">> >> }

(* the variables of the engine that only a render pass or a refresh writes *)
renderVars == << previousLines, previousWidth, cursorRow, columns, rows, term,
                 last, clean >>

(* TUI.start on a terminal whose image capability is images: the callbacks *)
(* are registered, the cursor is hidden, the cell size is queried when the *)
(* terminal shows images, and a render is requested.                       *)
StartOn(capabilities) ==
    /\ ~started
    /\ requests < MaxRequests
    /\ started' = TRUE
    /\ \E images \in capabilities :
          /\ cellSizeQueryPending' = (images \/ cellSizeQueryPending)
          /\ ev' = [Before("start") EXCEPT
                       !.calls = 1,
                       !.wrote = IF images THEN << Tok("CSI16t", 0, <<>>) >> ELSE <<>>]
    /\ LET r == requestRender(renderRequested, tickQueue)
       IN /\ renderRequested' = r.renderRequested
          /\ tickQueue' = r.tickQueue
    /\ requests' = requests + 1
    /\ pass' = NoPass
    /\ UNCHANGED renderVars
    /\ composite' = NoComposite
    /\ UNCHANGED widgetVars
    /\ UNCHANGED << received, routed >>
    /\ UNCHANGED << focusedComponent, modalState, children, inputBuffer >>

(* Container.addChild: push *)
addChild(kids, component) == Append(kids, component)

(* Array.indexOf, counted from 1: the first position holding the           *)
(* component, 0 (for the -1 of the source) when there is none              *)
indexOf(kids, component) ==
    IF \E i \in 1..Len(kids) : kids[i] = component
    THEN CHOOSE i \in 1..Len(kids) :
            /\ kids[i] = component
            /\ \A j \in 1..(i - 1) : kids[j] # component
    ELSE 0

removeChildLast(kids, component) ==
    IF \E i \in 1..Len(kids) : kids[i] = component
    THEN SubSeq(kids, 1, Len(kids) - 1)
    ELSE kids

(* Container.removeChild: splice(index, 1) when indexOf found the component *)
removeChild(kids, component) ==
    LET index == indexOf(kids, component)
    IN IF index # 0
       THEN SubSeq(kids, 1, index - 1) \o SubSeq(kids, index + 1, Len(kids))
       ELSE kids

(* Container.clear *)
clear(kids) == <<>>

(* What a child returns from render(width): the editor one line, the text  *)
(* two, the modal contents one, each cut to the width.                     *)
childRender(component, width) ==
    LET cut(line) == SubSeq(line, 1, Min(Len(line), width))
    IN CASE component = "editor" -> << cut(<<"a", "a", "a">>) >>
         [] component = "text" -> << cut(<<"b">>), cut(<<"b", "b", "b">>) >>
         [] OTHER -> << cut(<<"m", "m">>) >>

RECURSIVE renderReversed(_, _)
renderReversed(kids, width) ==
    IF kids = <<>> THEN <<>>
    ELSE renderReversed(Tail(kids), width) \o childRender(Head(kids), width)

(* Container.render: the lines of each child pushed in turn *)
RECURSIVE render(_, _)
render(kids, width) ==
    IF kids = <<>> THEN <<>>
    ELSE childRender(Head(kids), width) \o render(Tail(kids), width)

(* the calls child.render(width) the loop of Container.render makes *)
renderCalls(kids, width) ==
    [i \in 1..Len(kids) |-> [child |-> kids[i], width |-> width]]

(* Container.addChild on the root, which holds fewer than limit children *)
AddChildUpTo(limit) ==
    /\ Len(children) < limit
    /\ \E c \in { "editor", "text" } :
          /\ children' = addChild(children, c)
          /\ ev' = [Before("addChild") EXCEPT !.arg = c]
    /\ pass' = NoPass
    /\ UNCHANGED renderVars
    /\ composite' = NoComposite
    /\ UNCHANGED widgetVars
    /\ UNCHANGED << received, routed >>
    /\ UNCHANGED << renderRequested, tickQueue, requests, focusedComponent,
                    modalState, inputBuffer, cellSizeQueryPending, started >>

AddChild == AddChildUpTo(MaxChildren)

(* TUI.showModal with options of optionInputs *)
ShowModalWith(optionInputs) ==
    /\ requests < MaxRequests
    /\ \E c \in ModalComponents, options \in optionInputs :
          \E m \in { showModal(c, options, focusedComponent) } :
             /\ modalState' = m.modalState
             /\ focusedComponent' = m.focusedComponent
             /\ ev' = [Before("showModal") EXCEPT !.arg = c, !.calls = 1]
    /\ LET r == requestRender(renderRequested, tickQueue)
       IN /\ renderRequested' = r.renderRequested
          /\ tickQueue' = r.tickQueue
    /\ requests' = requests + 1
    /\ pass' = NoPass
    /\ UNCHANGED renderVars
    /\ composite' = NoComposite
    /\ UNCHANGED widgetVars
    /\ UNCHANGED << received, routed >>
    /\ UNCHANGED << children, inputBuffer, cellSizeQueryPending, started >>

ShowModal == ShowModalWith(OptionInputs)

(* TUI.hideModal: nothing happens when no modal is open *)
HideModal ==
    /\ requests < MaxRequests
    /\ IF ~isModalVisible
       THEN /\ ev' = Before("hideModal")
            /\ UNCHANGED << modalState, focusedComponent, renderRequested,
                            tickQueue, requests >>
       ELSE /\ \E m \in { hideModal(modalState, focusedComponent) } :
                  /\ modalState' = m.modalState
                  /\ focusedComponent' = m.focusedComponent
            /\ ev' = [Before("hideModal") EXCEPT !.calls = 1]
            /\ LET r == requestRender(renderRequested, tickQueue)
               IN /\ renderRequested' = r.renderRequested
                  /\ tickQueue' = r.tickQueue
            /\ requests' = requests + 1
    /\ pass' = NoPass
    /\ UNCHANGED renderVars
    /\ composite' = NoComposite
    /\ UNCHANGED widgetVars
    /\ UNCHANGED << received, routed >>
    /\ UNCHANGED << children, inputBuffer, cellSizeQueryPending, started >>

(* TUI.setFocus with a component of targets *)
SetFocusTo(targets) ==
    /\ \E c \in targets :
          /\ focusedComponent' = setFocus(c)
          /\ ev' = [Before("setFocus") EXCEPT !.arg = c]
    /\ pass' = NoPass
    /\ UNCHANGED renderVars
    /\ composite' = NoComposite
    /\ UNCHANGED widgetVars
    /\ UNCHANGED << received, routed >>
    /\ UNCHANGED << renderRequested, tickQueue, requests, modalState, children,
                    inputBuffer, cellSizeQueryPending, started >>

SetFocus == SetFocusTo(Components \cup { NULL })

(* the most input, in characters, that arrives while the query is pending *)
MaxReceived == 13

(* TUI.handleInput, called by the terminal with one chunk of chunks: while *)
(* the cell-size query is pending the chunk goes through the input buffer  *)
(* and parseCellSizeResponse; what comes back, if anything, goes to the    *)
(* focused component when it takes input, and then a render is requested.  *)
HandleInputOf(chunks) ==
    /\ started
    /\ \E chunk \in chunks :
          \E p \in { IF cellSizeQueryPending
                     THEN parseCellSizeResponse(inputBuffer \o chunk, TRUE)
                     ELSE [result |-> chunk, inputBuffer |-> inputBuffer,
                           cellSizeQueryPending |-> FALSE,
                           matched |-> FALSE, positive |-> FALSE] } :
             LET returned == cellSizeQueryPending /\ Len(p.result) = 0
                 to == IF returned THEN NULL ELSE deliveryTarget(focusedComponent)
                 calls == (IF p.positive THEN 1 ELSE 0) + (IF to # NULL THEN 1 ELSE 0)
                 r == requestRenderTimes(calls, renderRequested, tickQueue)
             IN /\ requests + calls <= MaxRequests
                /\ cellSizeQueryPending => Len(received) + Len(chunk) <= MaxReceived
                /\ received' = IF cellSizeQueryPending
                               THEN received \o chunk ELSE received
                /\ routed' = IF cellSizeQueryPending
                             THEN routed \o p.result ELSE routed
                /\ inputBuffer' = p.inputBuffer
                /\ cellSizeQueryPending' = p.cellSizeQueryPending
                /\ renderRequested' = r.renderRequested
                /\ tickQueue' = r.tickQueue
                /\ requests' = requests + calls
                /\ ev' = [Before("input") EXCEPT
                             !.chunk = chunk,
                             !.to = to,
                             !.data = IF to # NULL THEN p.result ELSE <<>>,
                             !.calls = calls,
                             !.matched = p.matched,
                             !.positive = p.positive,
                             !.invalidated = IF p.positive
                                             THEN invalidate(children) ELSE <<>>]
    /\ pass' = NoPass
    /\ UNCHANGED renderVars
    /\ composite' = NoComposite
    /\ UNCHANGED widgetVars
    /\ UNCHANGED << focusedComponent, modalState, children, started >>

(* a key press *)
KeyChunks == { << "x" >> }

StartPlain == StartOn({ FALSE })

KeyInput == HandleInputOf(KeyChunks)

SmallTick == TickFrom(SmallFrames)

FocusInit == Init /\ columns = MaxWidth /\ rows = MaxHeight

FocusNext ==
    \/ StartPlain
    \/ AddChild
    \/ ShowModal
    \/ HideModal
    \/ SetFocus
    \/ KeyInput
    \/ FullRefresh
    \/ SmallTick

FocusSpec == FocusInit /\ [][FocusNext]_vars

----------------------------------------------------------------------------
(* The cell-size query: start on a terminal with or without images, and    *)
(* input that arrives in chunks while the query is pending.                *)

Response(height, width) == << ESC, "[", "6", ";", height, ";", width, "t" >>

ArrowKey == << ESC, "[", "A" >>

(* ten characters pasted at once *)
Paste == [i \in 1..EscWindow |-> "x"]

(* The chunks the terminal hands over: a key, an arrow key, a paste, the   *)
(* response whole (with positive sizes, with a zero height), in two        *)
(* halves, between two keys, and followed by an arrow key.                 *)
QueryChunks ==
    { << "x" >>,
      ArrowKey,
      Paste,
      Response("1", "1"),
      Response("0", "1"),
      << ESC, "[", "6", ";", "1" >>,
      << ";", "1", "t" >>,
      << "x" >> \o Response("1", "1") \o << "x" >>,
      Response("1", "1") \o ArrowKey }

Start == StartOn(BOOLEAN)

SetFocusEditor == SetFocusTo({ "editor" })

QueryInput == HandleInputOf(QueryChunks)

QueryTick == TickFrom({ << <<"a">> >> })

QueryNext ==
    \/ Start
    \/ AddChild
    \/ SetFocusEditor
    \/ QueryInput
    \/ QueryTick

QuerySpec == FocusInit /\ [][QueryNext]_vars

(* a queued render callback is eventually run; nothing else is scheduled   *)
FairQuerySpec == QuerySpec /\ WF_vars(QueryTick)

----------------------------------------------------------------------------
(* The modal compositor: a modal is opened on terminals of several sizes   *)
(* and compositeModal is applied, as doRender applies it, to the lines of  *)
(* the root and the lines the modal component renders.                     *)

MaxTermWidth == 13
MaxTermHeight == 3
MaxBackground == 4
MaxModalHeight == 4

(* options of showModal with and without a width *)
SizedOptions ==
    { [given |-> g, dimBackground |-> FALSE, widthGiven |-> wg, width |-> w] :
        g \in BOOLEAN, wg \in BOOLEAN, w \in { 2 } }

(* the lines of the root: lines of one and of two cells in turn *)
Backgrounds ==
    { [i \in 1..n |-> IF i % 2 = 1 THEN <<"a">> ELSE <<"b", "b">>] :
        n \in 0..MaxBackground }

(* component.render(width) of the modal: n lines, one cell each when the   *)
(* width leaves room for one                                               *)
ModalRender(n, width) == [i \in 1..n |-> IF width >= 1 THEN <<"m">> ELSE <<>>]

CompositeInit ==
    InitOn({ 1, MaxTermWidth - 2, MaxTermWidth - 1, MaxTermWidth },
           1..MaxTermHeight)

ShowModalSized == ShowModalWith(SizedOptions)

(* doRender, lines 341-346: the root is rendered at terminal.columns and,  *)
(* with a modal open, compositeModal overlays the modal.                   *)
Composite ==
    /\ isModalVisible
    /\ \E background \in Backgrounds, n \in 0..MaxModalHeight :
          LET modalWidth == modalWidthOf(modalState.options, columns)
              modalLines == ModalRender(n, modalWidth)
          IN composite' =
                [called |-> TRUE, background |-> background,
                 modalLines |-> modalLines,
                 terminalWidth |-> columns, terminalHeight |-> rows,
                 dim |-> modalState.options.dimBackground,
                 modalWidth |-> modalWidth, modalHeight |-> n,
                 startRow |-> center(rows, n),
                 startCol |-> center(columns, modalWidth),
                 result |-> compositeModal(modalState, background, modalLines,
                                           columns, rows)]
    /\ pass' = NoPass
    /\ ev' = NoEv
    /\ UNCHANGED renderVars
    /\ UNCHANGED widgetVars
    /\ UNCHANGED << renderRequested, tickQueue, requests, focusedComponent,
                    modalState, children, inputBuffer, cellSizeQueryPending,
                    started, received, routed >>

CompositeNext ==
    \/ ShowModalSized
    \/ HideModal
    \/ Composite

CompositeSpec == CompositeInit /\ [][CompositeNext]_vars

----------------------------------------------------------------------------
(* Properties *)

Ran == pass.branch # "none"

Completed == pass.branch \notin {"none", "fatal"}

CountOp(buffer, op) == Cardinality({ i \in 1..Len(buffer) : buffer[i].op = op })

(* Sum of the row counts of the cursor-up codes of a buffer *)
RECURSIVE UpMotion(_)
UpMotion(buffer) ==
    IF buffer = <<>> THEN 0
    ELSE (IF Head(buffer).op = "CUU" THEN Head(buffer).n ELSE 0) + UpMotion(Tail(buffer))

(* lines written one after the other: l1 \r \n l2 \r \n l3 ... *)
Plain(lines) ==
    [k \in 1..Max(0, 3 * Len(lines) - 2) |->
        IF k % 3 = 1 THEN TEXT(lines[(k + 2) \div 3])
        ELSE IF k % 3 = 2 THEN CR ELSE LF]

(* lines rewritten in place: 2K l1 \r \n 2K l2 ... *)
Cleared(lines) ==
    [k \in 1..Max(0, 4 * Len(lines) - 2) |->
        IF k % 4 = 1 THEN EL2
        ELSE IF k % 4 = 2 THEN TEXT(lines[(k + 2) \div 4])
        ELSE IF k % 4 = 3 THEN CR ELSE LF]

IsFullReset(buffer, frame) ==
    buffer = <<BSU, ED3, ED2, CUP>> \o Plain(frame) \o <<ESU>>

(* The terminal shows exactly `frame` from its first row on, and nothing   *)
(* else.                                                                   *)
ScreenShows(frame) ==
    /\ Len(term.screen) >= Len(frame)
    /\ \A i \in 1..Len(term.screen) :
          term.screen[i] = IF i <= Len(frame) THEN frame[i] ELSE Blank

(* C1: after each completed render pass the terminal's rows, counted from  *)
(* the first line emitted since the last clear, hold exactly the lines of  *)
(* the new frame and every other row is blank, provided no line wider than *)
(* the terminal has been written since that clear.                         *)
C1_ScreenEqualsFrame == (Completed /\ clean) => ScreenShows(pass.frame)

C1_Witness ==
    /\ pass.branch = "incremental"
    /\ pass.firstChanged < pass.prevCursor
    /\ clean
    /\ ScreenShows(pass.frame)

(* C2: an incremental patch starts no higher than the top of the viewport  *)
(* (firstChanged >= cursorRow - rows + 1), so it moves the cursor up by at *)
(* most rows - 1; a first change above that row gives a full reset.        *)
C2_NeverAboveViewport ==
    /\ pass.branch = "incremental" =>
          /\ pass.firstChanged >= pass.prevCursor - pass.height + 1
          /\ UpMotion(pass.buffer) <= pass.height - 1
    /\ (Ran /\ pass.prevLen > 0 /\ pass.firstDiff # -1
            /\ pass.firstDiff < pass.prevCursor - pass.height + 1) =>
          IsFullReset(pass.buffer, pass.frame)

C2_Witness ==
    /\ pass.branch = "incremental"
    /\ UpMotion(pass.buffer) = pass.height - 1
    /\ pass.height > 1

(* C3: a pass whose frame and width equal those of the previous pass       *)
(* writes nothing to the terminal, whatever the frame, the frame of zero   *)
(* lines included.                                                         *)
C3_SameFrameNoWrite ==
    (Ran /\ pass.last.valid /\ pass.last.done /\ pass.unchanged) => pass.writes = 0

(* C4: however many requestRender calls precede the deferred callback,     *)
(* exactly one callback is queued for them, and once it has run its one    *)
(* pass none is left.                                                      *)
C4_OnePassPerTick ==
    /\ requests >= 1 => tickQueue = 1
    /\ requests = 0 => tickQueue = 0
    /\ Ran => (pass.served >= 1 /\ tickQueue = 0 /\ ~renderRequested)

C4_Witness == Ran /\ pass.served >= 2 /\ tickQueue = 0

(* C5: after every pass that completes, cursorRow is the index of the last *)
(* line of the baseline frame.                                             *)
C5_CursorOnLastLine == Completed => cursorRow = Len(previousLines) - 1

C5_Witness == pass.branch = "incremental" /\ cursorRow = Len(previousLines) - 1

(* A full reset and nothing else: clear scrollback, clear screen, home,    *)
(* the whole frame; the pass wrote it in one write.                        *)
WroteFullReset == pass.writes = 1 /\ IsFullReset(pass.buffer, pass.frame)

SizeDiffersFromLastPass ==
    /\ Ran
    /\ pass.last.valid
    /\ (pass.width # pass.last.width \/ Len(pass.frame) # pass.last.len)

C7_ViewportReset ==
    (/\ Ran
     /\ pass.width = pass.prevWidth
     /\ Len(pass.frame) = pass.prevLen
     /\ pass.prevCursor = pass.prevLen - 1
     /\ pass.firstDiff # -1
     /\ pass.firstDiff < (pass.prevLen - 1) - pass.height + 1) => WroteFullReset

C7_Witness ==
    /\ pass.branch = "viewport"
    /\ pass.width = pass.prevWidth
    /\ Len(pass.frame) = pass.prevLen
    /\ pass.firstDiff < (pass.prevLen - 1) - pass.height + 1
    /\ WroteFullReset

(* C8: the first pass, and the first pass after fullRefresh, writes the    *)
(* frame's lines in order separated by CR LF, between the synchronized     *)
(* update markers, with no clearing or homing code, and leaves cursorRow   *)
(* at frame.length - 1.                                                    *)
C8_FirstRender ==
    (Ran /\ ~pass.last.valid) =>
        /\ pass.writes = 1
        /\ pass.buffer = <<BSU>> \o Plain(pass.frame) \o <<ESU>>
        /\ cursorRow = Len(pass.frame) - 1

C8_Witness ==
    /\ Ran
    /\ ~pass.last.valid
    /\ Len(pass.frame) >= 2
    /\ pass.prevWidth = 0
    /\ CountOp(pass.buffer, "LF") = Len(pass.frame) - 1

(* the motion codes that take the cursor `d` rows down (up when negative) *)
Motion(d) == IF d > 0 THEN <<CUD(d)>> ELSE IF d < 0 THEN <<CUU(-d)>> ELSE <<>>

(* C9: an incremental patch moves the cursor by firstChanged - cursorRow,  *)
(* returns to column 0, and rewrites the lines firstChanged..length-1 in   *)
(* order, each after a clear-line code, and nothing else.                  *)
C9_IncrementalPatch ==
    pass.branch = "incremental" =>
        /\ pass.firstDiff >= 0
        /\ pass.writes = 1
        /\ pass.buffer =
              <<BSU>> \o Motion(pass.firstDiff - pass.prevCursor) \o <<CR>>
              \o Cleared(SubSeq(pass.frame, pass.firstDiff + 1, Len(pass.frame)))
              \o <<ESU>>

C9_Witness ==
    /\ pass.branch = "incremental"
    /\ pass.firstDiff < pass.prevCursor
    /\ CountOp(pass.buffer, "CUU") = 1
    /\ CountOp(pass.buffer, "EL2") = 2

Shrunk == Ran /\ pass.prevLen > Len(pass.frame)

(* C10 as stated: a frame shorter than the previous one gets a patch with  *)
(* one clear-line code per orphaned line and a cursor-up over them, and    *)
(* cursorRow is the new last line index.                                   *)
C10_OrphansClearedByLine ==
    Shrunk =>
        /\ CountOp(pass.buffer, "EL2") >= pass.prevLen - Len(pass.frame)
        /\ UpMotion(pass.buffer) >= pass.prevLen - Len(pass.frame)
        /\ cursorRow = Len(pass.frame) - 1

(* C10, amended: a frame shorter than the previous one gets a full reset;  *)
(* the orphaned lines go with the screen clear, no clear-line or cursor-up *)
(* code is written, and cursorRow is the new last line index.              *)
C10_ShrinkResets ==
    Shrunk =>
        /\ WroteFullReset
        /\ CountOp(pass.buffer, "EL2") = 0
        /\ UpMotion(pass.buffer) = 0
        /\ cursorRow = Len(pass.frame) - 1
        /\ clean => ScreenShows(pass.frame)

C10_Witness ==
    /\ Shrunk
    /\ Len(pass.frame) > 0
    /\ WroteFullReset
    /\ clean
    /\ ScreenShows(pass.frame)

TooWide == Ran /\ ~Fits(pass.frame, pass.width)

(* C11 as stated: whichever branch a pass takes, a frame with a line wider *)
(* than the render width makes the pass abort: nothing is written and      *)
(* previousLines, previousWidth and cursorRow stay as they were.           *)
C11_FatalWidthAborts ==
    TooWide =>
        /\ pass.branch = "fatal"
        /\ pass.writes = 0
        /\ Len(previousLines) = pass.prevLen
        /\ previousWidth = pass.prevWidth
        /\ cursorRow = pass.prevCursor

(* C12: after every pass that completes, the no-change branch included,    *)
(* previousLines is the frame of the pass and previousWidth is the width   *)
(* the pass read.                                                          *)
C12_BaselineIsFrame ==
    Completed => (previousLines = pass.frame /\ previousWidth = pass.width)

C12_Witness ==
    /\ pass.branch = "same"
    /\ Len(pass.frame) > 0
    /\ previousLines = pass.frame
    /\ previousWidth = pass.width

----------------------------------------------------------------------------
(* Properties of focus, modal and input *)

ClosedModal == ev.kind = "hideModal" /\ ev.modal.visible

(* C13 as stated: when hideModal closes a modal that still has the focus,  *)
(* the focus is again the value it had when showModal was called, null     *)
(* included.                                                               *)
C13_FocusRestored ==
    (ClosedModal /\ ev.focus = ev.modal.component) =>
        focusedComponent = ev.modal.previousFocus

(* C14 as stated: input that arrives while a modal is open is delivered to *)
(* the modal component and to no other, whatever calls of showModal,       *)
(* hideModal and setFocus came before.                                     *)
C14_ModalGetsInput ==
    (ev.kind = "input" /\ ev.modal.visible) => ev.to = ev.modal.component

TakesInput(c) == c # NULL /\ HandlesInput(c)

(* C15: with no cell-size query pending, handleInput hands the data to the *)
(* focused component exactly when there is one and it has a handleInput    *)
(* method, and requestRender is called exactly then; otherwise nothing is  *)
(* delivered and no render is requested.                                   *)
C15_InputRouting ==
    (ev.kind = "input" /\ ~ev.pending) =>
        IF TakesInput(ev.focus)
        THEN /\ ev.to = ev.focus
             /\ ev.data = ev.chunk
             /\ ev.calls = 1
             /\ renderRequested
             /\ tickQueue >= 1
        ELSE /\ ev.to = NULL
             /\ ev.data = <<>>
             /\ ev.calls = 0
             /\ renderRequested = ev.renderRequested
             /\ tickQueue = ev.tickQueue

C15_Witness ==
    /\ ev.kind = "input"
    /\ ~ev.pending
    /\ ev.focus = "editor"
    /\ ev.to = "editor"
    /\ ev.data = << "x" >>
    /\ ~ev.renderRequested
    /\ renderRequested

(* C19: fullRefresh empties the baseline (previousLines empty,             *)
(* previousWidth and cursorRow 0), writes clear-scrollback, clear-screen   *)
(* and home, which leaves a blank screen with the cursor at home, and      *)
(* schedules a render; the focus, the modal state and the children are as  *)
(* before.  A pass with no pass since the last refresh is a first render.  *)
C19_FullRefresh ==
    /\ ev.kind = "fullRefresh" =>
          /\ previousLines = <<>>
          /\ previousWidth = 0
          /\ cursorRow = 0
          /\ ev.wrote = << ED3, ED2, CUP >>
          /\ term = [screen |-> BlankRows(rows), row |-> 1, col |-> 0]
          /\ renderRequested
          /\ tickQueue >= 1
          /\ focusedComponent = ev.focus
          /\ modalState = ev.modal
          /\ children = ev.children
    /\ (Ran /\ ~pass.last.valid) => pass.branch = "first"

C19_Witness ==
    /\ ev.kind = "fullRefresh"
    /\ ev.lines # <<>>
    /\ ev.modal.visible
    /\ ev.focus # NULL
    /\ ev.children # <<>>
    /\ ~ev.renderRequested
    /\ previousLines = <<>>
    /\ renderRequested
    /\ focusedComponent = ev.focus
    /\ modalState = ev.modal
    /\ children = ev.children

(* C20: setFocus(c) makes c the focused component and changes nothing      *)
(* else: the modal state, the baseline, the render-pending flag with the   *)
(* queued callbacks, and the children are as before, modal open or not.    *)
C20_SetFocusOnly ==
    ev.kind = "setFocus" =>
        /\ focusedComponent = ev.arg
        /\ modalState = ev.modal
        /\ previousLines = ev.lines
        /\ previousWidth = ev.width
        /\ cursorRow = ev.cursor
        /\ renderRequested = ev.renderRequested
        /\ tickQueue = ev.tickQueue
        /\ children = ev.children

C20_Witness ==
    /\ ev.kind = "setFocus"
    /\ ev.modal.visible
    /\ ev.modal.previousFocus # NULL
    /\ ev.focus = ev.modal.component
    /\ ev.arg = "editor"
    /\ ev.lines # <<>>
    /\ ev.children # <<>>
    /\ focusedComponent = "editor"
    /\ modalState = ev.modal

----------------------------------------------------------------------------
(* Properties of the cell-size query *)

(* C16 as stated, at the moment the buffering ends: once the query is no   *)
(* longer pending, handleInput has passed on every character that arrived  *)
(* while it was pending, except the matched response, in arrival order.    *)
(* (Input that arrives later bypasses the buffer, so what is still held    *)
(* then is never passed on.)                                               *)
C16_NothingDropped ==
    (started /\ ~cellSizeQueryPending /\ TakesInput(focusedComponent)) =>
        routed = RemoveResponse(received)

(* C17 as stated, its first half: a pending query eventually stops being   *)
(* pending, whether or not a response or any other input arrives.          *)
C17_QueryAbandoned == cellSizeQueryPending ~> ~cellSizeQueryPending

Answered == ev.kind = "input" /\ ev.pending /\ ev.matched

(* C18 as stated: when the buffer holds a complete response, the response  *)
(* is taken out and reaches no component, the query is no longer pending,  *)
(* positive dimensions invalidate every child and schedule a render, and   *)
(* the rest of the buffer is passed on.                                    *)
C18_ResponseHandled ==
    Answered =>
        /\ ~cellSizeQueryPending
        /\ MatchStart(ev.data) = 0
        /\ ev.positive => /\ ev.invalidated = children
                          /\ renderRequested
                          /\ tickQueue >= 1
        /\ ~ev.positive => ev.invalidated = <<>>
        /\ inputBuffer = <<>>
        /\ TakesInput(ev.focus) => ev.data = RemoveResponse(ev.buffer \o ev.chunk)

----------------------------------------------------------------------------
(* Properties of the modal state and the container *)

(* C21: modalState holds at most one modal: after showModal(c) the modal   *)
(* is c, whether or not another one was open, and after hideModal none is  *)
(* open; neither call changes the children of the root.                    *)
C21_OneModal ==
    /\ ev.kind = "showModal" =>
          /\ isModalVisible
          /\ modalState.component = ev.arg
          /\ children = ev.children
    /\ ev.kind = "hideModal" =>
          /\ ~isModalVisible
          /\ modalState.component = NULL
          /\ children = ev.children

C21_Witness ==
    /\ ev.kind = "showModal"
    /\ ev.modal.visible
    /\ ev.modal.component = "modalA"
    /\ ev.arg = "modalB"
    /\ modalState.component = "modalB"
    /\ children # <<>>
    /\ children = ev.children

----------------------------------------------------------------------------
(* Properties of the modal compositor *)

(* a is the floor of half the room left, or 0 when there is no room *)
Centered(a, available, size) ==
    IF available >= size
    THEN 2 * a <= available - size /\ available - size <= 2 * a + 1
    ELSE a = 0

(* C22: the modal is anchored at row max(0, floor((H - mh) / 2)) and       *)
(* column max(0, floor((W - mw) / 2)), and its first cell is at that row   *)
(* and column of the composited frame; width 10 and height 3 on 40 x 10    *)
(* give column 15 and row 3.                                               *)
C22_Centering ==
    /\ composite.called =>
          /\ Centered(composite.startRow, composite.terminalHeight,
                      composite.modalHeight)
          /\ Centered(composite.startCol, composite.terminalWidth,
                      composite.modalWidth)
          /\ (composite.modalHeight >= 1 /\ composite.modalWidth >= 1) =>
                composite.result[composite.startRow + 1][composite.startCol + 1] = "m"
    /\ center(40, 10) = 15
    /\ center(10, 3) = 3

C22_Witness ==
    /\ composite.called
    /\ composite.terminalHeight = 3
    /\ composite.modalHeight = 1
    /\ composite.startRow = 1
    /\ composite.terminalWidth = 13
    /\ composite.modalWidth = 3
    /\ composite.startCol = 5
    /\ composite.result[2][6] = "m"

(* C23 as stated: every modal row of the composited frame is among its     *)
(* last terminalHeight rows, the rows the terminal shows after the pass,   *)
(* however long the background is (for a modal of positive width).         *)
C23_ModalInViewport ==
    (composite.called /\ composite.modalWidth >= 1) =>
        \A i \in 0..(composite.modalHeight - 1) :
            LET row == composite.startRow + i
            IN row < composite.terminalHeight =>
                  row >= Len(composite.result) - composite.terminalHeight

(* C24 as stated: the root is rendered at a positive width and so is the   *)
(* modal, at options.width or at min(60, terminalWidth - 10).              *)
C24_PositiveWidth ==
    composite.called =>
        /\ composite.terminalWidth >= 1
        /\ composite.modalWidth >= 1

(* the row of the background, padded and dimmed, that the compositor       *)
(* starts from (1-based)                                                   *)
BackgroundRow(r) ==
    LET line == IF r <= Len(composite.background)
                THEN composite.background[r]
                ELSE [i \in 1..composite.terminalWidth |-> " "]
    IN IF composite.dim THEN dimLine(line) ELSE line

(* the modal covers row r (1-based) of the composited frame *)
Covered(r) ==
    /\ r - 1 >= composite.startRow
    /\ r - 1 < composite.startRow + composite.modalHeight
    /\ r - 1 < composite.terminalHeight

(* C25: the composited frame has max(background length, terminal height)   *)
(* lines; a row the modal does not cover, a row at or below the terminal   *)
(* height included, is the background row, blank when past the end of the  *)
(* background and dimmed when dimming is on; a covered row carries the     *)
(* modal.                                                                  *)
C25_CompositeShape ==
    composite.called =>
        /\ Len(composite.result) =
              Max(Len(composite.background), composite.terminalHeight)
        /\ \A r \in 1..Len(composite.result) :
              IF Covered(r)
              THEN composite.modalWidth >= 1 =>
                      composite.result[r][composite.startCol + 1] = "m"
              ELSE composite.result[r] = BackgroundRow(r)

C25_Witness ==
    /\ composite.called
    /\ composite.dim
    /\ Len(composite.background) = 1
    /\ composite.terminalHeight = 2
    /\ composite.modalHeight = 3
    /\ Len(composite.result) = 2
    /\ Covered(2)
    /\ composite.modalWidth >= 1

----------------------------------------------------------------------------
(* Properties of the writes of a render pass *)

(* the buffer starts with the begin marker of a synchronized update, ends  *)
(* with the end marker and has neither in between                          *)
Framed(buffer) ==
    /\ Len(buffer) >= 2
    /\ buffer[1] = BSU
    /\ buffer[Len(buffer)] = ESU
    /\ \A i \in 2..(Len(buffer) - 1) : buffer[i].op \notin { "BSU", "ESU" }

(* C26: whatever a render pass writes, in the first-render, full-reset,    *)
(* above-viewport and incremental branches, starts with CSI ?2026h and     *)
(* ends with CSI ?2026l, with the clears, the cursor motion and the lines  *)
(* in between.                                                             *)
C26_SynchronizedUpdate ==
    (Ran /\ pass.writes > 0) =>
        /\ pass.branch \in { "first", "full", "viewport", "incremental" }
        /\ Framed(pass.buffer)

C26_Witness ==
    /\ pass.branch = "incremental"
    /\ pass.writes = 1
    /\ Framed(pass.buffer)
    /\ CountOp(pass.buffer, "EL2") >= 1

(* C27: a render pass calls terminal.write at most once; the branches that *)
(* patch the screen call it exactly once with the whole buffer, the        *)
(* no-change branch and the aborted pass not at all.                       *)
C27_SingleWrite ==
    Ran =>
        /\ pass.writes \in { 0, 1 }
        /\ pass.writes = 0 <=> pass.branch \in { "same", "fatal" }
        /\ pass.writes = 0 <=> pass.buffer = <<>>
        /\ pass.writes = 1 => Framed(pass.buffer)

C27_Witness ==
    /\ pass.branch = "viewport"
    /\ pass.writes = 1
    /\ Len(pass.buffer) > 5

----------------------------------------------------------------------------
(* Requests made during a render pass *)

MaxNested == 2

ReentrantTick == TickWith(Frames, 0..MaxNested)

ReentrantNext == RequestRender \/ ReentrantTick

ReentrantSpec == FocusInit /\ [][ReentrantNext]_vars

(* C28: requestRender called while a render pass runs starts no pass of    *)
(* its own: the pass that is running commits its own frame, and however    *)
(* many such calls there were, exactly one callback is queued for the next *)
(* tick; with no such call none is queued.  There is never more than one   *)
(* callback queued, so passes never overlap.                               *)
C28_NoNestedPass ==
    /\ tickQueue \in { 0, 1 }
    /\ renderRequested <=> tickQueue = 1
    /\ Ran =>
          /\ pass.nested >= 1 => (renderRequested /\ tickQueue = 1)
          /\ pass.nested = 0 => (~renderRequested /\ tickQueue = 0)
          /\ pass.branch \notin { "same", "fatal" } =>
                (previousLines = pass.frame /\ previousWidth = pass.width)

C28_Witness ==
    /\ Ran
    /\ pass.nested = MaxNested
    /\ pass.served >= 1
    /\ tickQueue = 1
    /\ pass.branch = "incremental"

----------------------------------------------------------------------------
(* Every request is served: the callers of requestRender and the event     *)
(* loop, which runs a queued callback in one of its next turns.            *)

ServeNext ==
    \/ StartPlain
    \/ ShowModal
    \/ HideModal
    \/ KeyInput
    \/ FullRefresh
    \/ Resize
    \/ SmallTick

ServeSpec == FocusInit /\ [][ServeNext]_vars

FairServeSpec == ServeSpec /\ WF_vars(SmallTick)

Branches == { "first", "full", "viewport", "incremental", "same", "fatal" }

(* C29: under an event loop that runs a queued callback, a render request  *)
(* leads to a render pass after which renderRequested is false, and every  *)
(* pass ends in one of its branches: it completes or aborts on a line that *)
(* is too wide.                                                            *)
C29_RequestServed ==
    /\ renderRequested ~> (Ran /\ pass.served >= 1 /\ ~renderRequested)
    /\ [](Ran => pass.branch \in Branches)
    /\ [](renderRequested => tickQueue > 0)

C29_Witness ==
    /\ Ran
    /\ pass.served >= 1
    /\ ~renderRequested
    /\ isModalVisible
    /\ started

----------------------------------------------------------------------------
(* The container: the children of the root and what it renders *)

MaxTreeSize == 3

AddChildTree == AddChildUpTo(MaxTreeSize)

(* Container.removeChild on the root, of a child or of a stranger *)
RemoveChild ==
    /\ \E c \in { "editor", "text", "modalA" } :
          /\ children' = removeChild(children, c)
          /\ ev' = [Before("removeChild") EXCEPT !.arg = c]
    /\ pass' = NoPass
    /\ composite' = NoComposite
    /\ UNCHANGED widgetVars
    /\ UNCHANGED renderVars
    /\ UNCHANGED << received, routed >>
    /\ UNCHANGED << renderRequested, tickQueue, requests, focusedComponent,
                    modalState, inputBuffer, cellSizeQueryPending, started >>

(* Container.clear on the root *)
Clear ==
    /\ children' = clear(children)
    /\ ev' = Before("clear")
    /\ pass' = NoPass
    /\ composite' = NoComposite
    /\ UNCHANGED widgetVars
    /\ UNCHANGED renderVars
    /\ UNCHANGED << received, routed >>
    /\ UNCHANGED << renderRequested, tickQueue, requests, focusedComponent,
                    modalState, inputBuffer, cellSizeQueryPending, started >>

(* Container.render on the root *)
RenderRoot ==
    /\ \E width \in 1..MaxWidth :
          ev' = [Before("render") EXCEPT !.renderWidth = width,
                                         !.renderCalls = renderCalls(children, width),
                                         !.rendered = render(children, width)]
    /\ pass' = NoPass
    /\ composite' = NoComposite
    /\ UNCHANGED widgetVars
    /\ UNCHANGED renderVars
    /\ UNCHANGED << received, routed >>
    /\ UNCHANGED << children, renderRequested, tickQueue, requests,
                    focusedComponent, modalState, inputBuffer,
                    cellSizeQueryPending, started >>

ContainerNext == AddChildTree \/ RemoveChild \/ Clear \/ RenderRoot

ContainerSpec == FocusInit /\ [][ContainerNext]_vars

(* number of lines the first n children render *)
RECURSIVE LinesBefore(_, _, _)
LinesBefore(kids, n, width) ==
    IF n = 0 THEN 0
    ELSE LinesBefore(kids, n - 1, width) + Len(childRender(kids[n], width))

(* lines holds, child after child in the order of kids, the lines of each *)
InOrder(lines, kids, width) ==
    /\ Len(lines) = LinesBefore(kids, Len(kids), width)
    /\ \A i \in 1..Len(kids) :
          \A j \in 1..Len(childRender(kids[i], width)) :
             lines[LinesBefore(kids, i - 1, width) + j]
                = childRender(kids[i], width)[j]

(* after is before without the element at one position *)
Without(before, index, after) ==
    /\ Len(after) = Len(before) - 1
    /\ \A i \in 1..Len(after) :
          after[i] = IF i < index THEN before[i] ELSE before[i + 1]

(* C30: Container.render returns the children's lines child after child in *)
(* the order the children were added, calling each child's render once     *)
(* with the width it was given; addChild puts the child last, removeChild  *)
(* takes a child out (where it was added more than once, the first of its  *)
(* places) and keeps the order of the others, removeChild of a component   *)
(* that is no child changes nothing, clear leaves no child.                *)
C30_ContainerOrder ==
    /\ ev.kind = "render" =>
          /\ InOrder(ev.rendered, children, ev.renderWidth)
          /\ Len(ev.renderCalls) = Len(children)
          /\ \A i \in 1..Len(children) :
                ev.renderCalls[i] = [child |-> children[i], width |-> ev.renderWidth]
          /\ children = ev.children
    /\ ev.kind = "addChild" =>
          /\ Len(children) = Len(ev.children) + 1
          /\ children[Len(children)] = ev.arg
          /\ SubSeq(children, 1, Len(ev.children)) = ev.children
    /\ ev.kind = "removeChild" =>
          IF \E i \in 1..Len(ev.children) : ev.children[i] = ev.arg
          THEN \E i \in 1..Len(ev.children) :
                  /\ ev.children[i] = ev.arg
                  /\ \A j \in 1..(i - 1) : ev.children[j] # ev.arg
                  /\ Without(ev.children, i, children)
          ELSE children = ev.children
    /\ ev.kind = "clear" => children = <<>>

C30_Witness ==
    /\ ev.kind = "render"
    /\ children = << "text", "editor", "text" >>
    /\ ev.renderWidth = 2
    /\ ev.rendered = << <<"b">>, <<"b", "b">>, <<"a", "a">>, <<"b">>, <<"b", "b">> >>

----------------------------------------------------------------------------
(* The diff loop of doRender on any two frames *)

(* the loop of lines 386-398 run on a previous and a new frame *)
Diff ==
    /\ \E old \in Frames, new \in Frames :
          ev' = [NoEv EXCEPT !.kind = "diff", !.lines = old, !.newLines = new,
                             !.firstChanged = firstChangedOf(old, new)]
    /\ pass' = NoPass
    /\ composite' = NoComposite
    /\ UNCHANGED widgetVars
    /\ UNCHANGED renderVars
    /\ UNCHANGED << received, routed >>
    /\ UNCHANGED << children, renderRequested, tickQueue, requests,
                    focusedComponent, modalState, inputBuffer,
                    cellSizeQueryPending, started >>

DiffNext == Diff

DiffSpec == FocusInit /\ [][DiffNext]_vars

(* the frames differ at index i (0-based), a missing line being empty *)
DiffersAt(old, new, i) ==
    (IF i < Len(old) THEN old[i + 1] ELSE <<>>)
        # (IF i < Len(new) THEN new[i + 1] ELSE <<>>)

(* C34: firstChanged is the smallest index below the longer length at      *)
(* which the old and the new frame differ, a missing line counting as an   *)
(* empty one, and -1 exactly when they differ nowhere.                     *)
C34_FirstChanged ==
    ev.kind = "diff" =>
        LET old == ev.lines
            new == ev.newLines
            n == Max(Len(old), Len(new))
            f == ev.firstChanged
        IN /\ f = -1 <=> \A i \in 0..(n - 1) : ~DiffersAt(old, new, i)
           /\ f # -1 =>
                 /\ f \in 0..(n - 1)
                 /\ DiffersAt(old, new, f)
                 /\ \A j \in 0..(f - 1) : ~DiffersAt(old, new, j)

C34_Witness ==
    /\ ev.kind = "diff"
    /\ Len(ev.lines) = 2
    /\ Len(ev.newLines) = 1
    /\ ev.lines[1] = ev.newLines[1]
    /\ ev.lines[2] # <<>>
    /\ ev.firstChanged = 1

----------------------------------------------------------------------------
(* Properties of the incremental branch and of the scheduling flag *)

(* C35: the incremental branch runs only on a non-empty previous frame and *)
(* a new frame of as many lines, so the first changed line is not below    *)
(* the cursor: the patch holds no cursor-down code and clears no line      *)
(* beyond those it rewrites.                                               *)
C35_IncrementalSameCount ==
    pass.branch = "incremental" =>
        /\ pass.prevLen >= 1
        /\ Len(pass.frame) = pass.prevLen
        /\ pass.prevCursor = pass.prevLen - 1
        /\ pass.firstChanged <= pass.prevCursor
        /\ CountOp(pass.buffer, "CUD") = 0
        /\ CountOp(pass.buffer, "EL2") = Len(pass.frame) - pass.firstChanged
        /\ CountOp(pass.buffer, "CUU") <= 1

C35_Witness ==
    /\ pass.branch = "incremental"
    /\ pass.prevLen = 2
    /\ pass.firstChanged = 0
    /\ pass.prevCursor = 1
    /\ CountOp(pass.buffer, "CUU") = 1

(* C36: as many callbacks wait in the event loop as renderRequested says,  *)
(* one when it is true and none when it is false; a pass that aborted has  *)
(* left the flag false, and a request after it queues a callback again.    *)
C36_FlagCountsCallbacks ==
    /\ renderRequested => tickQueue = 1
    /\ ~renderRequested => tickQueue = 0
    /\ pass.branch = "fatal" => (~renderRequested /\ tickQueue = 0)
    /\ (last.valid /\ ~last.done /\ requests >= 1) =>
          (renderRequested /\ tickQueue = 1)

C36_Witness ==
    /\ last.valid
    /\ ~last.done
    /\ ~Ran
    /\ requests >= 1
    /\ renderRequested
    /\ tickQueue = 1

----------------------------------------------------------------------------
(* A modal opened over a modal: the application focuses the editor, opens  *)
(* and closes modals.                                                      *)

StackNext == SetFocusEditor \/ ShowModal \/ HideModal \/ SmallTick

StackSpec == FocusInit /\ [][StackNext]_vars

(* C40: showModal over an open modal that holds the focus records that     *)
(* modal's component as previousFocus, and hideModal then leaves no modal  *)
(* open and the focus on that component.                                   *)
C40_SecondModalRemembersFirst ==
    /\ (ev.kind = "showModal" /\ ev.modal.visible
            /\ ev.focus = ev.modal.component) =>
          /\ isModalVisible
          /\ modalState.component = ev.arg
          /\ modalState.previousFocus = ev.modal.component
          /\ focusedComponent = ev.arg
    /\ (ev.kind = "hideModal" /\ ev.modal.visible
            /\ ev.modal.previousFocus \in ModalComponents) =>
          /\ ~isModalVisible
          /\ modalState = NoModal
          /\ focusedComponent = ev.modal.previousFocus

C40_Witness ==
    /\ ev.kind = "hideModal"
    /\ ev.modal.visible
    /\ ev.modal.component = "modalB"
    /\ ev.modal.previousFocus = "modalA"
    /\ ev.focus = "modalB"
    /\ ~isModalVisible
    /\ focusedComponent = "modalA"

----------------------------------------------------------------------------
(* The Modal component (components/modal.ts): its children, the child     *)
(* that takes the keys, and its input handler.                             *)

MaxModalKids == 3

(* the components put into the modal; the label has no handleInput *)
ModalKids == { "input", "list", "label" }

KidHandlesInput(c) == c \in { "input", "list" }

(* the keys of keys.js, one character each *)
CtrlC == "^C"

CtrlP == "^P"

isEscape(data) == data = << ESC >>

isCtrlC(data) == data = << CtrlC >>

isCtrlP(data) == data = << CtrlP >>

ModalData == { << ESC >>, << CtrlC >>, << CtrlP >>, << "x" >>, ArrowKey }

Modal_removeChildNoClamp(kids, focused, child) ==
    [children |-> removeChild(kids, child), focusedChildIndex |-> focused]

(* Modal.removeChild: the child is spliced out and an index that fell off  *)
(* the end is put on the last child                                        *)
Modal_removeChild(kids, focused, child) ==
    LET index == indexOf(kids, child)
        rest == SubSeq(kids, 1, index - 1) \o SubSeq(kids, index + 1, Len(kids))
    IN IF index # 0
       THEN [children |-> rest,
             focusedChildIndex |-> IF focused >= Len(rest)
                                   THEN Max(0, Len(rest) - 1)
                                   ELSE focused]
       ELSE [children |-> kids, focusedChildIndex |-> focused]

(* Modal.clear *)
Modal_clear == [children |-> <<>>, focusedChildIndex |-> 0]

(* Modal.setFocusedChild: the index of the child, 0-based, when it is one *)
setFocusedChild(kids, focused, child) ==
    LET index == indexOf(kids, child)
    IN IF index # 0 THEN index - 1 ELSE focused

(* Modal.getFocusedChild: children[focusedChildIndex] ?? null *)
getFocusedChild(kids, focused) ==
    IF focused >= 0 /\ focused < Len(kids) THEN kids[focused + 1] ELSE NULL

Modal_handleInputForwardsAll(kids, focused, data, onClose) ==
    [closeCalls |-> IF (isEscape(data) \/ isCtrlC(data) \/ isCtrlP(data)) /\ onClose
                    THEN 1 ELSE 0,
     forwarded |-> IF getFocusedChild(kids, focused) # NULL
                   THEN << [to |-> getFocusedChild(kids, focused), data |-> data] >>
                   ELSE <<>>]

(* Modal.handleInput: a close key calls onClose, when it is set, and       *)
(* returns; other data goes to children[focusedChildIndex] if it has a     *)
(* handleInput                                                             *)
Modal_handleInput(kids, focused, data, onClose) ==
    IF isEscape(data) \/ isCtrlC(data) \/ isCtrlP(data)
    THEN [closeCalls |-> IF onClose THEN 1 ELSE 0, forwarded |-> <<>>]
    ELSE LET focusedChild == getFocusedChild(kids, focused)
         IN [closeCalls |-> 0,
             forwarded |-> IF focusedChild # NULL /\ KidHandlesInput(focusedChild)
                           THEN << [to |-> focusedChild, data |-> data] >>
                           ELSE <<>>]

(* what the calls on the Modal leave alone *)
appVars == << renderRequested, tickQueue, requests, focusedComponent, modalState,
              children, inputBuffer, cellSizeQueryPending, started, received,
              routed, box, stopped >>

(* what the calls on the children of the Modal leave alone *)
modalAppVars == << appVars, modalOptions >>

(* Modal.addChild, on a modal of fewer than limit children *)
ModalAddChildUpTo(limit) ==
    /\ Len(modalChildren) < limit
    /\ \E c \in ModalKids :
          /\ modalChildren' = addChild(modalChildren, c)
          /\ ev' = [Before("Modal.addChild") EXCEPT !.arg = c]
    /\ pass' = NoPass
    /\ composite' = NoComposite
    /\ UNCHANGED << focusedChildIndex, chosenChild >>
    /\ UNCHANGED renderVars
    /\ UNCHANGED modalAppVars

ModalAddChild == ModalAddChildUpTo(MaxModalKids)

(* Modal.removeChild of a child or of a stranger *)
ModalRemoveChild ==
    /\ \E c \in ModalKids :
          \E m \in { Modal_removeChild(modalChildren, focusedChildIndex, c) } :
             /\ modalChildren' = m.children
             /\ focusedChildIndex' = m.focusedChildIndex
             /\ chosenChild' = IF c = chosenChild THEN NULL ELSE chosenChild
             /\ ev' = [Before("Modal.removeChild") EXCEPT !.arg = c]
    /\ pass' = NoPass
    /\ composite' = NoComposite
    /\ UNCHANGED renderVars
    /\ UNCHANGED modalAppVars

(* Modal.clear *)
ModalClear ==
    /\ modalChildren' = Modal_clear.children
    /\ focusedChildIndex' = Modal_clear.focusedChildIndex
    /\ chosenChild' = NULL
    /\ ev' = Before("Modal.clear")
    /\ pass' = NoPass
    /\ composite' = NoComposite
    /\ UNCHANGED renderVars
    /\ UNCHANGED modalAppVars

(* Modal.setFocusedChild with a child or a stranger *)
SetFocusedChild ==
    /\ \E c \in ModalKids :
          /\ focusedChildIndex' = setFocusedChild(modalChildren, focusedChildIndex, c)
          /\ chosenChild' = IF indexOf(modalChildren, c) # 0 THEN c ELSE chosenChild
          /\ ev' = [Before("Modal.setFocusedChild") EXCEPT !.arg = c]
    /\ pass' = NoPass
    /\ composite' = NoComposite
    /\ UNCHANGED modalChildren
    /\ UNCHANGED renderVars
    /\ UNCHANGED modalAppVars

(* Modal.handleInput with one key, onClose set or not *)
ModalHandleInput ==
    /\ \E data \in ModalData, onClose \in BOOLEAN :
          \E h \in { Modal_handleInput(modalChildren, focusedChildIndex, data,
                                       onClose) } :
             ev' = [Before("Modal.handleInput") EXCEPT !.key = data,
                                                       !.onClose = onClose,
                                                       !.closeCalls = h.closeCalls,
                                                       !.forwarded = h.forwarded]
    /\ pass' = NoPass
    /\ composite' = NoComposite
    /\ UNCHANGED << modalChildren, focusedChildIndex, chosenChild >>
    /\ UNCHANGED renderVars
    /\ UNCHANGED modalAppVars

ModalNext ==
    \/ ModalAddChild
    \/ ModalRemoveChild
    \/ ModalClear
    \/ SetFocusedChild
    \/ ModalHandleInput

ModalSpec == FocusInit /\ [][ModalNext]_vars

(* C38: focusedChildIndex is 0 on a modal without children and an index of *)
(* a child otherwise, so getFocusedChild returns null only on a modal      *)
(* without children.                                                       *)
C38_FocusIndexInRange ==
    /\ modalChildren = <<>> => focusedChildIndex = 0
    /\ modalChildren # <<>> =>
          (0 <= focusedChildIndex /\ focusedChildIndex < Len(modalChildren))
    /\ getFocusedChild(modalChildren, focusedChildIndex) = NULL
          <=> modalChildren = <<>>

C38_Witness ==
    /\ ev.kind = "Modal.removeChild"
    /\ Len(ev.kids) = MaxModalKids
    /\ ev.index = MaxModalKids - 1
    /\ ev.arg = ev.kids[MaxModalKids]
    /\ focusedChildIndex = MaxModalKids - 2

(* each child was added once *)
NoDuplicates(kids) ==
    \A i, j \in 1..Len(kids) : kids[i] = kids[j] => i = j

(* C39: the child setFocusedChild selected, and getFocusedChild returned,  *)
(* is still the one getFocusedChild returns after addChild or removeChild  *)
(* of another child.  (Fails: removing a child placed before it leaves the *)
(* index where it was, on the child that followed.)                        *)
C39_ChosenChildKeepsFocus ==
    (/\ ev.kind \in { "Modal.addChild", "Modal.removeChild" }
     /\ NoDuplicates(ev.kids)
     /\ chosenChild # NULL
     /\ ev.arg # chosenChild
     /\ getFocusedChild(ev.kids, ev.index) = chosenChild) =>
        getFocusedChild(modalChildren, focusedChildIndex) = chosenChild

CloseKeys == { << ESC >>, << CtrlC >>, << CtrlP >> }

(* C33: on Escape, Ctrl+C or Ctrl+P Modal.handleInput calls onClose once   *)
(* when it is set and hands the data to no child; other data it hands to   *)
(* the focused child alone, and only when that child handles input.        *)
C33_ModalInput ==
    ev.kind = "Modal.handleInput" =>
        LET focused == getFocusedChild(ev.kids, ev.index)
        IN IF ev.key \in CloseKeys
           THEN /\ ev.closeCalls = (IF ev.onClose THEN 1 ELSE 0)
                /\ ev.forwarded = <<>>
           ELSE /\ ev.closeCalls = 0
                /\ Len(ev.forwarded) <= 1
                /\ Len(ev.forwarded) = 1 <=>
                      (focused # NULL /\ focused \in { "input", "list" })
                /\ Len(ev.forwarded) = 1 =>
                      ev.forwarded[1] = [to |-> focused, data |-> ev.key]
                /\ modalChildren = ev.kids
                /\ focusedChildIndex = ev.index

C33_Witness ==
    /\ ev.kind = "Modal.handleInput"
    /\ ev.key = ArrowKey
    /\ ev.kids = << "label", "list", "input" >>
    /\ ev.index = 1
    /\ ev.forwarded = << [to |-> "list", data |-> ArrowKey] >>

----------------------------------------------------------------------------
(* Modal.render (components/modal.ts).  The file holds two versions of the *)
(* class: the one with paddings (lines 52-235) and the one that draws the  *)
(* header inside the border (lines 280-447).  The theme functions add      *)
(* styling only; the box-drawing characters are written "+", "-" and "|".  *)

MaxPadding == 2

MaxModalRenderWidth == 7

(* String.repeat for a count that is not negative *)
Repeat(c, n) == [i \in 1..n |-> c]

(* the options after the constructor merged the defaults in *)
ModalOptionSets ==
    { [showHeader |-> h, showBorder |-> b, paddingX |-> px, paddingY |-> py,
       showSeparator |-> sp, title |-> t, closeHint |-> c] :
        h \in BOOLEAN, b \in BOOLEAN, px \in 0..MaxPadding, py \in 0..1,
        sp \in BOOLEAN, t \in { <<>>, << "T", "T", "T" >> },
        c \in { << "e", "s", "c" >> } }

(* the header: title, at least one space, close hint *)
headerContent(options, contentWidth) ==
    options.title
    \o Spaces(Max(1, contentWidth - visibleWidth(options.title)
                        - visibleWidth(options.closeHint)))
    \o options.closeHint

(* Modal.render, lines 138-220 *)
Modal_render(options, kids, width) ==
    LET borderWidth == IF options.showBorder THEN 2 ELSE 0
        horizontalPadding == options.paddingX * 2
        contentWidth == Max(1, width - borderWidth - horizontalPadding)
        makeLine(content) ==
            LET paddedContent == Spaces(options.paddingX)
                                 \o padToWidth(content, contentWidth)
                                 \o Spaces(options.paddingX)
            IN IF options.showBorder
               THEN << "|" >> \o paddedContent \o << "|" >>
               ELSE paddedContent
        innerWidth == width - 2
        border == IF options.showBorder
                  THEN << << "+" >> \o Repeat("-", innerWidth) \o << "+" >> >>
                  ELSE <<>>
        padding == [i \in 1..options.paddingY |-> makeLine(<<>>)]
        header == IF options.showHeader
                  THEN << makeLine(headerContent(options, contentWidth)) >>
                       \o (IF options.showSeparator
                           THEN << makeLine(Repeat("-", contentWidth)) >>
                           ELSE <<>>)
                  ELSE <<>>
        childLines == render(kids, contentWidth)
        content == [i \in 1..Len(childLines) |-> makeLine(childLines[i])]
    IN IF options.showBorder /\ innerWidth < 0
       THEN [threw |-> TRUE, lines |-> <<>>]
       ELSE [threw |-> FALSE,
             lines |-> border \o padding \o header \o content \o padding \o border]

(* Modal.render, lines 363-432 *)
Modal_renderBordered(options, kids, width) ==
    LET borderWidth == IF options.showBorder THEN 2 ELSE 0
        contentWidth == Max(1, width - borderWidth)
        rule == << "+" >> \o Repeat("-", contentWidth) \o << "+" >>
        boxed(content) == << "|" >> \o padToWidth(content, contentWidth) \o << "|" >>
        top == IF options.showHeader /\ options.showBorder
               THEN << rule, boxed(headerContent(options, contentWidth)), rule >>
               ELSE IF options.showBorder THEN << rule >> ELSE <<>>
        childLines == render(kids, contentWidth)
        content == [i \in 1..Len(childLines) |->
                       IF options.showBorder
                       THEN boxed(childLines[i])
                       ELSE padToWidth(childLines[i], width)]
        bottom == IF options.showBorder THEN << rule >> ELSE <<>>
    IN [threw |-> FALSE, lines |-> top \o content \o bottom]

(* Modal.render of the version with paddings *)
(* new Modal(theme, options) *)
ModalConstruct ==
    /\ \E options \in ModalOptionSets : modalOptions' = options
    /\ modalChildren' = <<>>
    /\ focusedChildIndex' = 0
    /\ chosenChild' = NULL
    /\ ev' = Before("Modal.constructor")
    /\ pass' = NoPass
    /\ composite' = NoComposite
    /\ UNCHANGED renderVars
    /\ UNCHANGED appVars

ModalRenderPadded ==
    /\ \E width \in 1..MaxModalRenderWidth :
          \E r \in { Modal_render(modalOptions, modalChildren, width) } :
             ev' = [Before("Modal.render") EXCEPT !.variant = "padded",
                                                  !.options = modalOptions,
                                                  !.renderWidth = width,
                                                  !.threw = r.threw,
                                                  !.rendered = r.lines]
    /\ pass' = NoPass
    /\ composite' = NoComposite
    /\ UNCHANGED << modalChildren, focusedChildIndex, chosenChild >>
    /\ UNCHANGED renderVars
    /\ UNCHANGED modalAppVars

(* Modal.render of the version with the header inside the border *)
ModalRenderBordered ==
    /\ \E width \in 1..MaxModalRenderWidth :
          \E r \in { Modal_renderBordered(modalOptions, modalChildren, width) } :
             ev' = [Before("Modal.render") EXCEPT !.variant = "bordered",
                                                  !.options = modalOptions,
                                                  !.renderWidth = width,
                                                  !.threw = r.threw,
                                                  !.rendered = r.lines]
    /\ pass' = NoPass
    /\ composite' = NoComposite
    /\ UNCHANGED << modalChildren, focusedChildIndex, chosenChild >>
    /\ UNCHANGED renderVars
    /\ UNCHANGED modalAppVars

ModalAddOneChild == ModalAddChildUpTo(1)

ModalRenderNext ==
    \/ ModalConstruct
    \/ ModalAddOneChild
    \/ ModalRenderPadded
    \/ ModalRenderBordered

ModalRenderSpec == FocusInit /\ [][ModalRenderNext]_vars

(* C31: every line Modal.render(width) returns is at most width cells      *)
(* wide, for every width from 1 and all options.  (Fails: the content      *)
(* width is at least 1 whatever the width, and paddings and borders are    *)
(* added to it.)                                                           *)
C31_ModalFitsWidth ==
    ev.kind = "Modal.render" =>
        \A i \in 1..Len(ev.rendered) :
            visibleWidth(ev.rendered[i]) <= ev.renderWidth

(* the lines fit when the width leaves a cell for the content *)
ModalFitsWithRoom ==
    (ev.kind = "Modal.render" /\ ~ev.threw
        /\ ev.renderWidth >= 1 + (IF ev.options.showBorder THEN 2 ELSE 0)
                               + (IF ev.variant = "padded"
                                  THEN 2 * ev.options.paddingX ELSE 0)) =>
        \A i \in 1..Len(ev.rendered) :
            visibleWidth(ev.rendered[i]) <= ev.renderWidth

----------------------------------------------------------------------------
(* FullScreenBox (components/modal.ts, lines 461-609), without a           *)
(* background function.  What its children render is an input of each      *)
(* render: a component may render other lines whenever its own state       *)
(* changed.                                                                *)

MaxBoxHeight == 3

MaxBoxLines == 2

(* the lines the children return at the content width, one after another *)
BoxContents ==
    UNION { [1..n -> { <<>>, << "a" >> }] : n \in 0..MaxBoxLines }

(* Array.join("\n") *)
RECURSIVE join(_)
join(lines) ==
    IF lines = <<>> THEN <<>>
    ELSE IF Len(lines) = 1 THEN lines[1]
    ELSE lines[1] \o << "\n" >> \o join(Tail(lines))

(* FullScreenBox.applyBg without bgFn: the line padded to the width *)
applyBg(line, width) == line \o Spaces(Max(0, width - visibleWidth(line)))

(* FullScreenBox.invalidateCache *)
invalidateCache(b) ==
    [b EXCEPT !.cached = FALSE, !.cachedWidth = 0, !.cachedHeight = 0,
              !.cachedChildLines = <<>>, !.cachedLines = <<>>]

(* FullScreenBox.render: the lines returned and the box afterwards *)
FullScreenBox_render(b, output, width, terminalHeight) ==
    LET contentWidth == Max(1, width - b.paddingX * 2)
        leftPad == Spaces(b.paddingX)
        childLines == [i \in 1..Len(output) |-> leftPad \o output[i]]
        contentHeight == Len(childLines) + b.paddingY * 2
        targetHeight == Max(contentHeight, terminalHeight)
        childLinesKey == join(childLines)
        padding == [i \in 1..b.paddingY |-> applyBg(<<>>, width)]
        drawn == padding
                 \o [i \in 1..Len(childLines) |-> applyBg(childLines[i], width)]
                 \o padding
        filled == drawn \o [i \in 1..(targetHeight - Len(drawn)) |->
                               applyBg(<<>>, width)]
        result == filled \o [i \in 1..(terminalHeight - Len(filled)) |->
                                applyBg(<<>>, width)]
    IN IF /\ b.cached
          /\ b.cachedWidth = width
          /\ b.cachedHeight = terminalHeight
          /\ b.cachedChildLines = childLinesKey
       THEN [lines |-> b.cachedLines, fromCache |-> TRUE, box |-> b]
       ELSE [lines |-> result, fromCache |-> FALSE,
             box |-> [b EXCEPT !.cached = TRUE, !.cachedWidth = width,
                               !.cachedHeight = terminalHeight,
                               !.cachedChildLines = childLinesKey,
                               !.cachedLines = result]]

(* what the calls on the FullScreenBox leave alone *)
boxAppVars == << renderRequested, tickQueue, requests, focusedComponent,
                 modalState, children, inputBuffer, cellSizeQueryPending,
                 started, received, routed, stopped, modalChildren,
                 focusedChildIndex, chosenChild, modalOptions >>

(* new FullScreenBox(getTerminalHeight, paddingX, paddingY) *)
BoxConstruct ==
    /\ \E px \in 0..1, py \in 0..1 :
          box' = [NoBox EXCEPT !.paddingX = px, !.paddingY = py]
    /\ ev' = [Before("FullScreenBox.constructor") EXCEPT !.box = box]
    /\ pass' = NoPass
    /\ composite' = NoComposite
    /\ UNCHANGED renderVars
    /\ UNCHANGED boxAppVars

(* addChild, removeChild of a child and clear: the cache is dropped *)
BoxChildrenChanged ==
    /\ box' = invalidateCache(box)
    /\ ev' = [Before("FullScreenBox.addChild") EXCEPT !.box = box]
    /\ pass' = NoPass
    /\ composite' = NoComposite
    /\ UNCHANGED renderVars
    /\ UNCHANGED boxAppVars

(* FullScreenBox.render *)
BoxRender ==
    /\ \E output \in BoxContents, width \in 2..MaxWidth,
          terminalHeight \in 1..MaxBoxHeight :
          \E r \in { FullScreenBox_render(box, output, width, terminalHeight) } :
             /\ box' = r.box
             /\ ev' = [Before("FullScreenBox.render") EXCEPT
                          !.box = box, !.newLines = output,
                          !.renderWidth = width,
                          !.terminalHeight = terminalHeight,
                          !.fromCache = r.fromCache,
                          !.rendered = r.lines]
    /\ pass' = NoPass
    /\ composite' = NoComposite
    /\ UNCHANGED renderVars
    /\ UNCHANGED boxAppVars

BoxNext == BoxConstruct \/ BoxChildrenChanged \/ BoxRender

BoxSpec == FocusInit /\ [][BoxNext]_vars

(* C32: FullScreenBox.render returns max(content lines + 2 * paddingY,     *)
(* terminal height) lines, from the cache too.  (Fails: the cache is keyed *)
(* by the lines joined with "\n", which is the same for no line and for    *)
(* one empty line.)                                                        *)
C32_BoxHeight ==
    ev.kind = "FullScreenBox.render" =>
        Len(ev.rendered)
            = Max(Len(ev.newLines) + 2 * ev.box.paddingY, ev.terminalHeight)

(* the number of lines is right whenever the lines are built anew *)
BoxHeightWhenBuilt ==
    (ev.kind = "FullScreenBox.render" /\ ~ev.fromCache) =>
        Len(ev.rendered)
            = Max(Len(ev.newLines) + 2 * ev.box.paddingY, ev.terminalHeight)

----------------------------------------------------------------------------
(* Stopping: start, the requests, the render callback and stop *)

(* TUI.stop: the cursor is shown again and the terminal released; no       *)
(* field of the TUI changes and a callback that waits stays queued.        *)
Stop ==
    /\ started
    /\ ~stopped
    /\ stopped' = TRUE
    /\ ev' = Before("stop")
    /\ pass' = NoPass
    /\ composite' = NoComposite
    /\ UNCHANGED << modalChildren, focusedChildIndex, chosenChild, modalOptions,
                    box >>
    /\ UNCHANGED renderVars
    /\ UNCHANGED << renderRequested, tickQueue, requests, focusedComponent,
                    modalState, children, inputBuffer, cellSizeQueryPending,
                    started, received, routed >>

StopNext ==
    \/ StartPlain
    \/ RequestRender
    \/ FullRefresh
    \/ Stop
    \/ Tick

StopSpec == FocusInit /\ [][StopNext]_vars

(* C37: once stop has released the terminal nothing is written to it:      *)
(* no render pass writes and fullRefresh does not write.  (Fails: stop     *)
(* neither cancels the callback that waits nor makes later calls return.)  *)
C37_NoWriteAfterStop ==
    stopped =>
        /\ ~(Ran /\ pass.writes > 0)
        /\ ev.kind # "fullRefresh"

====
